---- MODULE Spec2Model ----
(***************************************************************************)
(* Verification model of mcp-soloseller: the batch fulfilment orchestrator *)
(* (src/src/main.py), the request-scoped credential context (src/auth.py,  *)
(* src/app.py) and the carrier clients (src/carriers, src/src/shipping,    *)
(* src/src_backup/shipping).                                               *)
(***************************************************************************)
EXTENDS Integers, Sequences, FiniteSets, TLC

(***************************************************************************)
(* Bounds                                                                  *)
(***************************************************************************)
MaxOrders == 2
MaxRuns == 2

(***************************************************************************)
(* Orchestrator: domains                                                   *)
(***************************************************************************)
\* ChannelType, in the order _collect_new_orders visits the channels
ChannelType == <<"naver", "coupang">>

Channels == {ChannelType[i] : i \in 1..Len(ChannelType)}

\* OrderStatus with its position along the lifecycle
OrderStatus == <<"new", "confirmed", "shipped", "delivering", "delivered", "cancelled">>

Rank(s) == CHOOSE i \in 1..Len(OrderStatus) : OrderStatus[i] = s

\* the orders the marketplaces hold: order k belongs to the channels in turn
ChannelOf(k) == ChannelType[((k - 1) % Len(ChannelType)) + 1]

\* [channel -> set of channel_order_id]: the new orders each marketplace holds
remote == [c \in Channels |-> {k \in 1..MaxOrders : ChannelOf(k) = c}]

\* the two sources of runs: the cron jobs and explicit calls
Tasks == {"scheduler", "ondemand"}

VARIABLES
    client,     \* [Channels -> BOOLEAN]: server.naver_client / coupang_client is set
    orders,     \* sequence of Order rows, index = autoincrement id
    logs,       \* sequence of ProcessingLog rows
    run,        \* [Tasks -> record]: each run's local state
    started,    \* number of runs started so far
    credentials,    \* auth._credentials: [context -> value held for the ContextVar]
    req,            \* [Requests -> record]: the HTTP requests in flight
    carrier_client, \* the carrier client under use: class, api_key, test_mode
    response,       \* the ShippingResponse of its last request_invoice, if any
    answer,         \* what the carrier's API answered to that call, if it was asked
    channel_client, \* the marketplace client under use: channel, token held
    call_result,    \* the outcome of its last operation, if any
    manager,        \* the ShippingManager: settings, _carriers, _sender_info
    outcome,        \* the last call on the manager and what came of it
    tool_call,      \* the last issue_invoice tool call and what it returned
    completed,      \* a request that carried credentials has been answered
    authenticated,  \* what the carrier client's last authenticate() returned, if any
    time,           \* datetime.now(), in minutes
    oauth,          \* the Naver client's access_token and token_expires_at
    requests,       \* the requests its last operation sent, and when
    server,         \* the clients the server has created, per slot, and its phase
    market,         \* [Channels -> set of channel_order_id]: the marketplaces' new orders
    scheduler,      \* the jobs the APScheduler instance holds
    processing_log, \* the batch_number of the ProcessingLog rows the triggers' runs wrote
    shared,         \* server.naver_client / coupang_client as instances, and who holds them
    database        \* the tokens table, the clock, and the last lookup by token

ovars == <<client, orders, logs, run, started>>

cvars == <<credentials, req>>

kvars == <<carrier_client, response, answer>>

hvars == <<channel_client, call_result>>

xvars == <<manager, outcome, tool_call, completed, authenticated, time, oauth, requests, server>>

yvars == <<market, scheduler, processing_log, shared, database>>

vars == <<ovars, cvars, kvars, hvars, xvars, yvars>>

RECURSIVE SortedSeq(_)
\* the list a marketplace returns for a set of orders
SortedSeq(S) ==
    IF S = {} THEN <<>>
    ELSE LET m == CHOOSE x \in S : \A y \in S : x <= y
         IN <<m>> \o SortedSeq(S \ {m})

ZeroResults == [collected |-> 0, confirmed |-> 0, printed |-> 0, errors |-> 0]

IdleRun == [pc |-> "idle", kind |-> "none", ch |-> 1, fetched |-> <<>>,
            all_orders |-> <<>>, idx |-> 0, results |-> ZeroResults,
            skipped |-> 0, steps |-> <<>>, failed |-> FALSE,
            summary |-> "none", logged |-> FALSE, error_notified |-> FALSE]

\* Order.carrier column default (the display name of CJ Logistics, ASCII here)
DefaultCarrierName == "CJ"

\* the carrier register_invoice names to the marketplace when none is passed
RegisteredCarrier == "CJ"

\* Order(...) as built in _save_order, with the column defaults of the model
NewOrder(c, coid, t) ==
    [channel |-> c, channel_order_id |-> coid, status |-> "new",
     tracking_number |-> <<>>, carrier |-> DefaultCarrierName,
     confirmed_at |-> FALSE, shipped_at |-> FALSE, session |-> t]

\* rows a session of task t can see: committed ones and its own pending ones
Visible(t) == {i \in 1..Len(orders) : orders[i].session \in {"committed", t}}

\* a lookup that consults only the session's own pending rows
MatchingOwnSessionOnly(t, c, coid) ==
    {i \in 1..Len(orders) : /\ orders[i].session = t
                            /\ orders[i].channel = c
                            /\ orders[i].channel_order_id = coid}

\* a lookup that passes over rows already shipped
MatchingUnshipped(t, c, coid) ==
    {i \in Visible(t) : /\ orders[i].channel = c
                        /\ orders[i].channel_order_id = coid
                        /\ orders[i].status # "shipped"}

\* select(Order).where(channel == c, channel_order_id == coid)
Matching(t, c, coid) ==
    {i \in Visible(t) : orders[i].channel = c /\ orders[i].channel_order_id = coid}

\* a dummy tracking number that leaves the letters out
DummyTrackingBare(id) == <<"yyyyMMddHHmmss", id>>

\* the dummy tracking number of _run_batch_processing, f"TEST{now:%Y%m%d%H%M%S}{order.id}":
\* the four letters, the timestamp, the row's id
DummyTracking(id) == <<"T", "E", "S", "T", "yyyyMMddHHmmss", id>>

\* the orchestrator before any run, with no marketplace configured
NoRuns ==
    /\ client = [c \in Channels |-> FALSE]
    /\ orders = <<>>
    /\ logs = <<>>
    /\ run = [t \in Tasks |-> IdleRun]
    /\ started = 0
    /\ market = remote

(***************************************************************************)
(* Credential context (src/auth.py, src/app.py, src/tools)                 *)
(***************************************************************************)
MaxRequests == 2
MaxBatch == 2

Requests == 1..MaxRequests

\* the sellers whose clients call the server; "anonymous" sends no credential header
Tenants == {"A", "B", "anonymous"}

None == "None"

Secrets ==
    [A |-> [naver |-> "naver-id-A", cj |-> "cj-key-A", sender |-> "sender-A"],
     B |-> [naver |-> "naver-id-B", cj |-> "cj-key-B", sender |-> "sender-B"],
     anonymous |-> [naver |-> None, cj |-> None, sender |-> None]]

\* the credential headers a tenant's client sends with every request
TenantHeaders(tn) ==
    ("x-naver-client-id" :> Secrets[tn].naver) @@
    ("x-cj-api-key" :> Secrets[tn].cj) @@
    ("x-sender-name" :> Secrets[tn].sender)

\* UserCredentials built from the request headers
extract_credentials_auto(headers) ==
    [naver_client_id |-> headers["x-naver-client-id"],
     cj_api_key |-> headers["x-cj-api-key"],
     sender_name |-> headers["x-sender-name"],
     default_carrier |-> "cj"]

\* the ContextVar's content in a context that never set it: default=None
Unset == [set |-> FALSE, value |-> extract_credentials_auto(TenantHeaders("anonymous"))]

\* per request: the context of the middleware's task and of the endpoint's task
Contexts == Requests \X {"mw", "ep"}

\* one context for every task: a module-level global in place of the ContextVar
CurrentContextShared(r, task) == <<1, "mw">>

\* the context a ContextVar reads and writes: that of the running task
CurrentContext(r, task) == <<r, task>>

get_credentials(r, task) == credentials[CurrentContext(r, task)]

set_credentials(r, task, v) ==
    [credentials EXCEPT ![CurrentContext(r, task)] = [set |-> TRUE, value |-> v]]

Tools == {"get_orders", "issue_invoice", "batch_issue_invoices", "register_invoice"}

NoCall == [kind |-> "none", key |-> None]

IdleRequest ==
    [pc |-> "idle", headers |-> TenantHeaders("anonymous"), path |-> "/",
     tool |-> "none", left |-> 0, call |-> NoCall]

NoRequests ==
    /\ credentials = [c \in Contexts |-> Unset]
    /\ req = [r \in Requests |-> IdleRequest]

\* the outbound call a tool makes with the credentials cv it read, if it makes one
CallFor(tool, cv) ==
    IF ~cv.set THEN NoCall
    ELSE IF tool \in {"issue_invoice", "batch_issue_invoices"}
    THEN IF cv.value.sender_name = None THEN NoCall
         ELSE [kind |-> "carrier", key |-> cv.value.cj_api_key]
    ELSE IF cv.value.naver_client_id = None THEN NoCall
         ELSE [kind |-> "marketplace", key |-> cv.value.naver_client_id]

\* a request reaches the server and gets its own task
Arrive(r, tn, path, tool) ==
    /\ req[r].pc = "idle"
    /\ path = "/mcp" <=> tool \in Tools
    /\ req' = [req EXCEPT ![r] =
         [pc |-> "dispatch", headers |-> TenantHeaders(tn), path |-> path, tool |-> tool,
          left |-> IF tool = "batch_issue_invoices" THEN MaxBatch ELSE 1,
          call |-> NoCall]]
    /\ UNCHANGED <<credentials, ovars, kvars, hvars, xvars, yvars>>

\* CredentialsMiddleware.dispatch up to call_next, which runs the endpoint in
\* a child task holding a copy of the middleware's context
Dispatch(r) ==
    LET q == req[r]
        stored == IF q.path = "/mcp"
                  THEN set_credentials(r, "mw", extract_credentials_auto(q.headers))
                  ELSE credentials
    IN /\ q.pc = "dispatch"
       /\ credentials' = [stored EXCEPT ![CurrentContext(r, "ep")] =
                                           stored[CurrentContext(r, "mw")]]
       /\ req' = [req EXCEPT ![r].pc = "endpoint"]
       /\ UNCHANGED <<ovars, kvars, hvars, xvars, yvars>>

\* mcp_endpoint after `await request.json()`: execute_tool and the tool function
\* up to the await of its first carrier or marketplace call
Endpoint(r) ==
    LET q == req[r]
        c == CallFor(q.tool, get_credentials(r, "ep"))
    IN /\ q.pc = "endpoint"
       /\ req' = [req EXCEPT ![r] =
            IF q.path # "/mcp" \/ c = NoCall
            THEN [q EXCEPT !.pc = "respond"]
            ELSE [q EXCEPT !.pc = "await", !.call = c]]
       /\ UNCHANGED <<credentials, ovars, kvars, hvars, xvars, yvars>>

\* the awaited call returns; batch_issue_invoices goes on to its next order,
\* reading get_credentials() again
CallReturns(r) ==
    LET q == req[r]
        c == CallFor(q.tool, get_credentials(r, "ep"))
    IN /\ q.pc = "await"
       /\ req' = [req EXCEPT ![r] =
            IF q.left > 1 /\ c # NoCall
            THEN [q EXCEPT !.left = q.left - 1, !.call = c]
            ELSE [q EXCEPT !.pc = "respond", !.call = NoCall]]
       /\ UNCHANGED <<credentials, ovars, kvars, hvars, xvars, yvars>>

\* RespondRequest when the contexts of the request's tasks outlive it
RespondRequestKeeping(r) ==
    /\ req[r].pc = "respond"
    /\ req' = [req EXCEPT ![r] = IdleRequest]
    /\ completed' = (completed \/ get_credentials(r, "ep").set)
    /\ UNCHANGED <<credentials, ovars, kvars, hvars, manager, outcome, tool_call, authenticated, time, oauth, requests, server, yvars>>

\* the response is sent; the request's tasks and their contexts end
RespondRequest(r) ==
    /\ req[r].pc = "respond"
    /\ req' = [req EXCEPT ![r] = IdleRequest]
    /\ credentials' = [credentials EXCEPT ![<<r, "mw">>] = Unset, ![<<r, "ep">>] = Unset]
    /\ completed' = (completed \/ get_credentials(r, "ep").set)
    /\ UNCHANGED <<ovars, kvars, hvars, manager, outcome, tool_call, authenticated, time, oauth, requests, server, yvars>>

NextCred ==
    \/ \E r \in Requests, tn \in Tenants, path \in {"/mcp", "/health"},
          tool \in Tools \cup {"none"} : Arrive(r, tn, path, tool)
    \/ \E r \in Requests : Dispatch(r)
    \/ \E r \in Requests : Endpoint(r)
    \/ \E r \in Requests : CallReturns(r)
    \/ \E r \in Requests : RespondRequest(r)

(***************************************************************************)
(* Carrier clients (src/carriers, src/src/shipping/carriers,               *)
(* src/src_backup/shipping/carriers)                                       *)
(***************************************************************************)
CarrierType == {"cj", "hanjin", "lotte", "logen", "epost"}

\* the client classes: the tools' clients, the shipping package's and its older ones
CarrierClasses ==
    {[pkg |-> "carriers", carrier |-> c] : c \in CarrierType}
    \cup {[pkg |-> "shipping", carrier |-> c] : c \in {"hanjin", "logen", "epost"}}
    \cup {[pkg |-> "backup", carrier |-> c] : c \in {"cj", "lotte", "epost"}}

\* the literal each class puts in front of a simulated tracking number
Prefix(carrier) ==
    CASE carrier = "cj" -> <<"T", "E", "S", "T">>
      [] carrier = "hanjin" -> <<"H", "J">>
      [] carrier = "lotte" -> <<"L", "T">>
      [] carrier = "logen" -> <<"L", "G">>
      [] carrier = "epost" -> <<"E", "P">>

Digit(d) == <<"0", "1", "2", "3", "4", "5", "6", "7", "8", "9">>[d + 1]

RECURSIVE Pad(_, _)
\* a number in a zero-padded field of width w, as strftime writes %Y %m %d %H %M %S
Pad(n, w) == IF w = 0 THEN <<>> ELSE Pad(n \div 10, w - 1) \o <<Digit(n % 10)>>

RECURSIVE Str(_)
\* f"{n}" of a non-negative int
Str(n) == IF n < 10 THEN <<Digit(n)>> ELSE Str(n \div 10) \o <<Digit(n % 10)>>

\* datetime.now().strftime("%Y%m%d%H%M%S")
strftime(now) ==
    Pad(now.year, 4) \o Pad(now.month, 2) \o Pad(now.day, 2)
        \o Pad(now.hour, 2) \o Pad(now.minute, 2) \o Pad(now.second, 2)

\* values of datetime.now()
Clock ==
    {[year |-> 2024, month |-> 1, day |-> 5, hour |-> 9, minute |-> 3, second |-> 7],
     [year |-> 2025, month |-> 12, day |-> 31, hour |-> 23, minute |-> 59, second |-> 59]}

\* values of random.randint(1000, 9999), and of randint(100, 999) in the epost classes
randint(carrier) == IF carrier = "epost" THEN {100, 999} ELSE {1000, 9999}

ShippingResponse(success, tracking_number, error) ==
    [success |-> success, tracking_number |-> tracking_number, error |-> error]

\* _test_invoice / _test_mode_invoice
TestInvoice(carrier, now, n) ==
    ShippingResponse(TRUE, Prefix(carrier) \o strftime(now) \o Str(n), "")

\* what the carrier's API can answer: an HTTP status with a body whose result
\* code, tracking field and message may be present or not, or no answer at all
\* (the connection is refused, the request times out, another exception)
RemoteAnswers ==
    {[kind |-> "http", status |-> st, result |-> "ok", tracking |-> tn, msg |-> ""] :
        st \in {200, 201}, tn \in {<<"6", "1", "2">>, <<>>}}
    \cup {[kind |-> "http", status |-> 200, result |-> "rejected", tracking |-> <<>>, msg |-> m] :
            m \in {"rejected", ""}}
    \cup {[kind |-> k, status |-> 500, result |-> "none", tracking |-> <<>>, msg |-> ""] :
            k \in {"http", "connect_error", "timeout", "error"}}

NoClient == [pkg |-> "none", carrier |-> "none", api_key |-> "", test_mode |-> FALSE]

NoCarrierClient ==
    /\ carrier_client = NoClient
    /\ response = <<>>
    /\ answer = <<>>

\* __init__: how each class derives test_mode
NewClient(cls, api_key, test_mode) ==
    [pkg |-> cls.pkg, carrier |-> cls.carrier, api_key |-> api_key,
     test_mode |->
        IF cls.pkg = "carriers" THEN api_key = ""
        ELSE IF cls \in {[pkg |-> "shipping", carrier |-> "epost"],
                         [pkg |-> "backup", carrier |-> "cj"]} THEN test_mode
        ELSE test_mode \/ api_key = ""]

\* request_invoice of client cl when the API answers a, the clock reads now and
\* randint draws n: the client afterwards and the response
request_invoice(cl, a, now, n) ==
    LET test == TestInvoice(cl.carrier, now, n)
        live == ShippingResponse(TRUE, a.tracking, "")
        Failure(e) == ShippingResponse(FALSE, <<>>, e)
        Http(codes) == a.kind = "http" /\ a.status \in codes
        Same(r) == [client |-> cl, response |-> r]
    IN IF cl.pkg = "shipping" /\ cl.carrier = "epost"
       THEN Same(Failure("not implemented"))
       ELSE IF cl.test_mode THEN Same(test)
       ELSE IF cl.pkg = "carriers"
       THEN IF cl.carrier = "cj" THEN Same(IF Http({200, 201}) THEN live ELSE test)
            ELSE IF cl.carrier \in {"hanjin", "lotte"}
            THEN Same(IF Http({200}) THEN live ELSE test)
            ELSE Same(IF Http({200}) /\ a.result = "ok" THEN live ELSE test)
       ELSE IF cl.pkg = "backup" /\ cl.carrier = "cj"
       THEN IF Http({200, 201}) THEN Same(live)
            ELSE IF a.kind = "http" THEN Same(Failure("invoice failed"))
            ELSE IF a.kind = "connect_error"
            THEN [client |-> [cl EXCEPT !.test_mode = TRUE], response |-> test]
            ELSE Same(Failure("invoice error"))
       ELSE IF a.kind # "http" THEN Same(test)
            ELSE IF a.status # 200 THEN Same(Failure("API error"))
            ELSE IF cl.carrier \in {"hanjin", "lotte"} \/ a.result = "ok" THEN Same(live)
            ELSE Same(Failure(a.msg))

\* request_invoice of client cl sends a request to the carrier's API: not in
\* test mode, and never in the shipping package's epost class
IsLive(cl) == ~cl.test_mode /\ ~(cl.pkg = "shipping" /\ cl.carrier = "epost")

\* no issue_invoice call has been made
NoToolCall ==
    [carrier |-> "none", customer_id |-> "", api_key |-> "", sender_configured |-> FALSE,
     result |-> <<>>]

\* a client of some class is constructed from a tenant's carrier credentials
Construct(cls, api_key, test_mode) ==
    /\ carrier_client' = NewClient(cls, api_key, test_mode)
    /\ response' = <<>>
    /\ answer' = <<>>
    /\ tool_call' = NoToolCall
    /\ authenticated' = <<>>
    /\ UNCHANGED <<ovars, cvars, hvars, manager, outcome, completed, time, oauth, requests, server, yvars>>

RequestInvoice ==
    /\ carrier_client # NoClient
    /\ \E a \in RemoteAnswers, now \in Clock, n \in randint(carrier_client.carrier) :
         LET out == request_invoice(carrier_client, a, now, n)
         IN /\ carrier_client' = out.client
            /\ response' = <<out.response>>
            /\ answer' = IF IsLive(carrier_client) THEN <<a>> ELSE <<>>
    /\ tool_call' = NoToolCall
    /\ authenticated' = <<>>
    /\ UNCHANGED <<ovars, cvars, hvars, manager, outcome, completed, time, oauth, requests, server, yvars>>

\* close(): the client is not used again
CloseClient ==
    /\ carrier_client # NoClient
    /\ carrier_client' = NoClient
    /\ response' = <<>>
    /\ answer' = <<>>
    /\ tool_call' = NoToolCall
    /\ authenticated' = <<>>
    /\ UNCHANGED <<ovars, cvars, hvars, manager, outcome, completed, time, oauth, requests, server, yvars>>

\* the issue_invoice tool for the carrier named, by a tenant whose credentials
\* hold customer_id and api_key for it ("" where a field is not set):
\* _get_carrier_client builds the client from whatever is there, an unknown
\* code is taken for CJ, and the client, a local of the call, is asked once
\* the sender is known
issue_invoice(carrier, customer_id, api_key, sender_configured, a, now, n) ==
    LET carrier_type == IF carrier \in CarrierType THEN carrier ELSE "cj"
        cl == NewClient([pkg |-> "carriers", carrier |-> carrier_type], api_key, FALSE)
        asked == request_invoice(cl, a, now, n)
    IN IF ~sender_configured
       THEN [client |-> cl, asked |-> FALSE,
             result |-> ShippingResponse(FALSE, <<>>, "no sender")]
       ELSE [client |-> asked.client, asked |-> IsLive(cl), result |-> asked.response]

IssueInvoice(carrier, customer_id, api_key, sender_configured) ==
    \E a \in IF sender_configured /\ api_key # "" THEN RemoteAnswers
              ELSE {CHOOSE x \in RemoteAnswers : x.kind = "timeout"},
       now \in Clock, n \in randint(IF carrier \in CarrierType THEN carrier ELSE "cj") :
       LET out == issue_invoice(carrier, customer_id, api_key, sender_configured,
                                a, now, n)
       IN /\ carrier_client' = NoClient
          /\ response' = <<>>
          /\ answer' = IF out.asked THEN <<a>> ELSE <<>>
          /\ tool_call' = [carrier |-> carrier, customer_id |-> customer_id,
                           api_key |-> api_key,
                           sender_configured |-> sender_configured,
                           result |-> <<out.result>>]
          /\ authenticated' = <<>>
    /\ UNCHANGED <<ovars, cvars, hvars, manager, outcome, completed, time, oauth, requests, server, yvars>>

\* authenticate() of the classes that have one, when the API answers a
authenticate_carrier(cl, a) ==
    IF cl.pkg = "shipping" /\ cl.carrier = "epost" THEN FALSE
    ELSE IF cl.pkg = "backup" /\ cl.carrier = "cj"
    THEN IF a.kind = "http" THEN a.status = 200
         ELSE IF a.kind = "connect_error" THEN cl.test_mode
         ELSE FALSE
    ELSE IF cl.test_mode THEN TRUE
         ELSE a.kind = "http" /\ a.status = 200

Authenticate ==
    /\ carrier_client.pkg \in {"shipping", "backup"}
    /\ \E a \in RemoteAnswers :
         /\ authenticated' = <<authenticate_carrier(carrier_client, a)>>
         /\ answer' = <<a>>
    /\ response' = <<>>
    /\ tool_call' = NoToolCall
    /\ UNCHANGED <<carrier_client, ovars, cvars, hvars, manager, outcome, completed, time, oauth, requests, server, yvars>>

NextCarrier ==
    \/ Authenticate
    \/ \E cls \in CarrierClasses, api_key \in {"", "live-key"}, test_mode \in BOOLEAN :
          Construct(cls, api_key, test_mode)
    \/ RequestInvoice
    \/ CloseClient
    \/ \E carrier \in CarrierType \cup {"unknown"}, customer_id \in {"", "id"},
          api_key \in {"", "live-key"}, sender_configured \in BOOLEAN :
          IssueInvoice(carrier, customer_id, api_key, sender_configured)

(***************************************************************************)
(* Marketplace channel clients (src/src/channels)                          *)
(***************************************************************************)
ChannelOps ==
    {"authenticate", "get_new_orders", "get_order_detail", "confirm_order",
     "register_invoice", "get_claims", "update_stock"}

\* the operations that return a list
ListOps == {"get_new_orders", "get_claims"}

\* what the marketplace can answer to one request: an HTTP status, with a body
\* of 0 or 1 entries under "data" when it is 200, or no answer at all
ChannelAnswers ==
    {[kind |-> "http", status |-> 200, items |-> n] : n \in 0..1}
    \cup {[kind |-> "http", status |-> st, items |-> 0] : st \in {201, 500}}
    \cup {[kind |-> k, status |-> 0, items |-> 0] : k \in {"network_error", "timeout"}}

\* the request did not succeed: no answer, or a status outside 2xx
Failing(a) == a.kind # "http" \/ a.status \notin {200, 201}

\* what an operation returns from its failure branches: [], None or False
EmptyValue(op) ==
    IF op \in ListOps THEN <<>>
    ELSE IF op = "get_order_detail" THEN "None" ELSE "False"

NoChannel == [channel |-> "none", token |-> FALSE]

NoChannelClient ==
    /\ channel_client = NoChannel
    /\ call_result = <<>>

\* authenticate() of client cl when the token endpoint would answer a: Coupang
\* signs each request and asks nothing, Naver reuses a valid token
authenticate(cl, a) ==
    IF cl.channel = "coupang" \/ cl.token
    THEN [ok |-> TRUE, client |-> cl, seen |-> <<>>]
    ELSE IF a.kind = "http" /\ a.status = 200
    THEN [ok |-> TRUE, client |-> [cl EXCEPT !.token = TRUE], seen |-> <<a>>]
    ELSE [ok |-> FALSE, client |-> cl, seen |-> <<a>>]

\* the claim types get_claims queries, one request each, in this order
ClaimEndpoints(channel) ==
    IF channel = "naver" THEN <<"return", "exchange", "cancel">>
    ELSE <<"return", "cancel">>

RECURSIVE get_claims(_, _, _, _, _)
\* the body of get_claims from endpoint k on, answers as[k + 1] onwards: an
\* exception gives [], a status other than 200 skips the endpoint
get_claims(endpoints, as, k, claims, seen) ==
    IF k > Len(endpoints) THEN [returned |-> claims, seen |-> seen]
    ELSE LET a == as[k + 1]
         IN IF a.kind # "http" THEN [returned |-> <<>>, seen |-> Append(seen, a)]
            ELSE get_claims(endpoints, as, k + 1,
                            IF a.status = 200
                            THEN claims \o [i \in 1..a.items |-> endpoints[k]]
                            ELSE claims,
                            Append(seen, a))

\* the most requests operation op of a client can send: the token request, then
\* one request, or one per claim endpoint
Calls(cl, op) ==
    IF op = "authenticate" THEN 1
    ELSE IF op = "get_claims" THEN 1 + Len(ClaimEndpoints(cl.channel))
    ELSE 2

\* operation op of client cl when the marketplace answers its requests with
\* as[1] (the token request) and as[2..]: the client afterwards, the value
\* returned, whether an exception left the operation, the answers it received
channel_call(cl, op, as) ==
    LET auth == authenticate(cl, as[1])
        a == as[2]
        Result(v, seen) ==
            [op |-> op, client |-> auth.client, returned |-> v, raised |-> FALSE,
             seen |-> auth.seen \o seen]
    IN IF op = "authenticate"
       THEN Result(IF auth.ok THEN "True" ELSE "False", <<>>)
       ELSE IF ~auth.ok THEN Result(EmptyValue(op), <<>>)
       ELSE IF op = "get_claims"
       THEN LET c == get_claims(ClaimEndpoints(cl.channel), as, 1, <<>>, <<>>)
            IN Result(c.returned, c.seen)
       ELSE IF a.kind # "http" THEN Result(EmptyValue(op), <<a>>)
       ELSE IF op = "get_new_orders"
       THEN Result(IF a.status # 200 THEN <<>> ELSE [i \in 1..a.items |-> "order"], <<a>>)
       ELSE IF op = "get_order_detail"
       THEN Result(IF a.status = 200 THEN "ChannelOrder" ELSE "None", <<a>>)
       ELSE Result(IF a.status \in {200, 201} THEN "True" ELSE "False", <<a>>)

\* the server builds the client of a channel from its settings
NewChannelClient(c) ==
    /\ channel_client' = [channel |-> c, token |-> FALSE]
    /\ call_result' = <<>>
    /\ UNCHANGED <<ovars, cvars, kvars, xvars, yvars>>

\* one operation of the client, start to return
ChannelCall(op) ==
    /\ channel_client # NoChannel
    /\ \E as \in [1..Calls(channel_client, op) -> ChannelAnswers] :
         LET out == channel_call(channel_client, op, as)
         IN /\ channel_client' = out.client
            /\ call_result' = <<[op |-> out.op, returned |-> out.returned,
                                 raised |-> out.raised, seen |-> out.seen]>>
    /\ UNCHANGED <<ovars, cvars, kvars, xvars, yvars>>

\* the token comes within five minutes of its expiry
TokenExpires ==
    /\ channel_client.token
    /\ channel_client' = [channel_client EXCEPT !.token = FALSE]
    /\ call_result' = <<>>
    /\ UNCHANGED <<ovars, cvars, kvars, xvars, yvars>>

\* close(): the client is not used again
CloseChannelClient ==
    /\ channel_client # NoChannel
    /\ channel_client' = NoChannel
    /\ call_result' = <<>>
    /\ UNCHANGED <<ovars, cvars, kvars, xvars, yvars>>

NextChannel ==
    \/ \E c \in Channels : NewChannelClient(c)
    \/ \E op \in ChannelOps : ChannelCall(op)
    \/ TokenExpires
    \/ CloseChannelClient

(***************************************************************************)
(* Shipping manager (src/src/shipping/manager.py)                          *)
(***************************************************************************)
\* the carriers the manager is exercised with: the one an empty default falls
\* back on and one other
Managed == {"cj", "hanjin"}

\* what the manager reads of a Settings object: the carriers whose customer id
\* and api key are both set, the default carrier code, and whether the sender's
\* name and address are set
SettingsSet ==
    [configured : SUBSET Managed, default_carrier : Managed \cup {""},
     sender : BOOLEAN]

\* Settings.cj_configured, hanjin_configured, ...
carrier_configured(s, c) == c \in s.configured

\* a tenant's credential bag: its carriers with both fields, its default carrier
CredentialBags == [configured : SUBSET Managed, default_carrier : Managed]

\* UserCredentials.cj_configured, hanjin_configured, ...: both fields present
credentials_configured(bag, c) == c \in bag.configured

\* the manager before any is built; a client is known by where its credentials
\* came from, "settings" or "credentials", and "None" stands for no client
NoManager ==
    [built |-> "none",
     settings |-> [configured |-> {}, default_carrier |-> "", sender |-> FALSE],
     carriers |-> [c \in Managed |-> "None"], sender_info |-> "None"]

\* _initialize(): the sender info and one client per configured carrier are
\* put in place; nothing that is already there is taken out
initialize(m) ==
    [m EXCEPT !.sender_info = IF m.settings.sender THEN "settings" ELSE @,
              !.carriers = [c \in Managed |->
                              IF carrier_configured(m.settings, c)
                              THEN "settings" ELSE @[c]]]

\* ShippingManager(settings): no client and no sender info, then _initialize()
ShippingManager(s) ==
    initialize([built |-> "settings", settings |-> s,
                carriers |-> [c \in Managed |-> "None"], sender_info |-> "None"])

\* the default_carrier property
default_carrier(m) ==
    IF m.settings.default_carrier = "" THEN "cj" ELSE m.settings.default_carrier

\* get_carrier(carrier_type): the client registered for the code, None for
\* the default carrier
get_carrier(m, carrier_type) ==
    m.carriers[IF carrier_type = "None" THEN default_carrier(m) ELSE carrier_type]

\* set_carrier(carrier_type, client)
set_carrier(m, carrier_type, cl) == [m EXCEPT !.carriers[carrier_type] = cl]

\* the configured flags of get_available_carriers()
get_available_carriers(m) == [c \in Managed |-> m.carriers[c] # "None"]

\* reload_settings(settings)
reload_settings(m, s) == initialize([m EXCEPT !.settings = s])

\* close(): every client is closed and the mapping is emptied
close(m) == [m EXCEPT !.carriers = [c \in Managed |-> "None"]]

\* create_shipping_manager_from_credentials(credentials, default_sender):
\* a manager of the process-wide settings s = get_settings(), then the bag's
\* clients over it and the sender info the caller hands in, if any
create_shipping_manager_from_credentials(s, bag, default_sender) ==
    LET m == ShippingManager(s)
        cj == IF credentials_configured(bag, "cj")
              THEN set_carrier(m, "cj", "credentials") ELSE m
        hanjin == IF credentials_configured(bag, "hanjin")
                  THEN set_carrier(cj, "hanjin", "credentials") ELSE cj
    IN [hanjin EXCEPT !.built = "credentials",
                      !.sender_info = IF default_sender THEN "credentials" ELSE @]

\* the operations that look a carrier up and hand the call to its client
RoutedOps ==
    {"request_invoice_for_order", "request_invoice", "get_label",
     "request_pickup", "cancel_invoice"}

\* the last call on the manager: its arguments, what it returned, whether it
\* raised, and the carrier whose client it called, if it called one
Outcome(op, carrier, returned, called) ==
    [op |-> op, carrier |-> carrier, returned |-> returned, raised |-> FALSE,
     called |-> called, credentials |-> [configured |-> {}, default_carrier |-> "cj"],
     default_sender |-> FALSE]

\* routed() without the check of the sender info
routedUnchecked(m, op, carrier_type, ok) ==
    LET code == IF carrier_type = "None" THEN default_carrier(m) ELSE carrier_type
        refused == IF op \in {"request_invoice_for_order", "request_invoice"}
                   THEN "failure" ELSE IF op = "get_label" THEN "None" ELSE "False"
    IN IF get_carrier(m, carrier_type) = "None"
       THEN Outcome(op, carrier_type, refused, "None")
       ELSE Outcome(op, carrier_type, IF ok THEN "success" ELSE refused, code)

\* request_invoice_for_order / request_invoice / get_label / request_pickup /
\* cancel_invoice: ok is what the carrier's client answers if it is called
routed(m, op, carrier_type, ok) ==
    LET code == IF carrier_type = "None" THEN default_carrier(m) ELSE carrier_type
        refused == IF op \in {"request_invoice_for_order", "request_invoice"}
                   THEN "failure" ELSE IF op = "get_label" THEN "None" ELSE "False"
    IN IF op = "request_invoice_for_order" /\ m.sender_info = "None"
       THEN Outcome(op, carrier_type, "failure", "None")
       ELSE IF get_carrier(m, carrier_type) = "None"
       THEN Outcome(op, carrier_type, refused, "None")
       ELSE Outcome(op, carrier_type, IF ok THEN "success" ELSE refused, code)

\* ShippingManager(settings) at startup
NewManager(s) ==
    /\ manager.built = "none"
    /\ manager' = ShippingManager(s)
    /\ outcome' = [Outcome("__init__", "None", "None", "None")
                     EXCEPT !.returned = "manager"]
    /\ UNCHANGED <<ovars, cvars, kvars, hvars, tool_call, completed, authenticated, time, oauth, requests, server, yvars>>

\* the factory builds the manager of one request from the tenant's bag
CreateFromCredentials(s, bag, default_sender) ==
    /\ manager.built = "none"
    /\ manager' = create_shipping_manager_from_credentials(s, bag, default_sender)
    /\ outcome' = [Outcome("create_shipping_manager_from_credentials",
                           "None", "manager", "None")
                     EXCEPT !.credentials = bag, !.default_sender = default_sender]
    /\ UNCHANGED <<ovars, cvars, kvars, hvars, tool_call, completed, authenticated, time, oauth, requests, server, yvars>>

GetCarrier(carrier_type) ==
    /\ manager.built # "none"
    /\ outcome' = Outcome("get_carrier", carrier_type,
                          get_carrier(manager, carrier_type), "None")
    /\ UNCHANGED <<manager, ovars, cvars, kvars, hvars, tool_call, completed, authenticated, time, oauth, requests, server, yvars>>

SetCarrier(carrier_type, cl) ==
    /\ manager.built # "none"
    /\ manager' = set_carrier(manager, carrier_type, cl)
    /\ outcome' = Outcome("set_carrier", carrier_type, "None", "None")
    /\ UNCHANGED <<ovars, cvars, kvars, hvars, tool_call, completed, authenticated, time, oauth, requests, server, yvars>>

Routed(op, carrier_type) ==
    /\ manager.built # "none"
    /\ \E ok \in BOOLEAN : outcome' = routed(manager, op, carrier_type, ok)
    /\ UNCHANGED <<manager, ovars, cvars, kvars, hvars, tool_call, completed, authenticated, time, oauth, requests, server, yvars>>

ReloadSettings(s) ==
    /\ manager.built # "none"
    /\ manager' = reload_settings(manager, s)
    /\ outcome' = Outcome("reload_settings", "None", "None", "None")
    /\ UNCHANGED <<ovars, cvars, kvars, hvars, tool_call, completed, authenticated, time, oauth, requests, server, yvars>>

Close ==
    /\ manager.built # "none"
    /\ manager' = close(manager)
    /\ outcome' = Outcome("close", "None", "None", "None")
    /\ UNCHANGED <<ovars, cvars, kvars, hvars, tool_call, completed, authenticated, time, oauth, requests, server, yvars>>

NextManager ==
    \/ \E s \in SettingsSet : NewManager(s)
    \/ \E s \in SettingsSet, bag \in CredentialBags, default_sender \in BOOLEAN :
         CreateFromCredentials(s, bag, default_sender)
    \/ \E c \in Managed \cup {"None"} : GetCarrier(c)
    \/ \E c \in Managed, cl \in {"settings", "credentials"} : SetCarrier(c, cl)
    \/ \E op \in RoutedOps, c \in Managed \cup {"None"} : Routed(op, c)
    \/ \E s \in SettingsSet : ReloadSettings(s)
    \/ Close

(***************************************************************************)
(* OAuth token of the Naver client (src/src/channels/naver.py)             *)
(***************************************************************************)
MaxTime == 70

\* timedelta(minutes=5)
Margin == 5

\* the lifetime of a token in minutes: expires_in, 3600 seconds by default
ExpiresIn == 3600 \div 60

\* authenticate() taking any token it holds for valid
token_validHeld(o, t) == o.access_token

\* authenticate(): the token held is reused
token_valid(o, t) == o.access_token /\ t < o.token_expires_at - Margin

\* an operation of n API requests begun at t when the token endpoint, if it is
\* asked, answers ok after ds[1] minutes and API request k takes ds[k + 1]:
\* the client afterwards, the requests sent with the time of each and the
\* expiry of the token it carried, and the time the operation returns
naver_operation(o, t, n, ok, ds) ==
    LET reuse == token_valid(o, t)
        t1 == IF reuse THEN t ELSE t + ds[1]
        after == IF reuse \/ ~ok THEN o
                 ELSE [access_token |-> TRUE, token_expires_at |-> t1 + ExpiresIn]
        at == [k \in 1..n |-> t1 + (IF k > 1 THEN ds[2] ELSE 0)
                                  + (IF k > 2 THEN ds[3] ELSE 0)]
        token == IF reuse THEN <<>>
                 ELSE <<[to |-> "token", at |-> t, expires |-> o.token_expires_at,
                         held |-> o.access_token]>>
        api == IF ~reuse /\ ~ok THEN <<>>
               ELSE [k \in 1..n |-> [to |-> "api", at |-> at[k],
                                      expires |-> after.token_expires_at,
                                      held |-> after.access_token]]
    IN [client |-> after, requests |-> token \o api,
        returns |-> IF api = <<>> THEN t1 ELSE at[n] + ds[n + 1]]

\* one operation of the client: n = 1 (get_new_orders, confirm_order, ...) or
\* n = 3 (get_claims)
NaverOperation(n) ==
    \E ok \in BOOLEAN, ds \in [1..(n + 1) -> {0, 1}] :
       LET out == naver_operation(oauth, time, n, ok, ds)
       IN /\ out.returns <= MaxTime
          /\ oauth' = out.client
          /\ requests' = out.requests
          /\ time' = out.returns
          /\ UNCHANGED <<ovars, cvars, kvars, hvars, manager, outcome, tool_call,
                         completed, authenticated, server, yvars>>

\* a minute goes by with no operation under way
Tick ==
    /\ time < MaxTime
    /\ time' = time + 1
    /\ requests' = <<>>
    /\ UNCHANGED <<oauth, ovars, cvars, kvars, hvars, manager, outcome, tool_call,
                   completed, authenticated, server, yvars>>

NextToken ==
    \/ \E n \in {1, 3} : NaverOperation(n)
    \/ Tick

(***************************************************************************)
(* Lifetime of the clients (src/src/main.py, src/src/api/settings.py,      *)
(* src/src_backup/api/settings.py, src/tools/shipping.py)                  *)
(***************************************************************************)
MaxClients == 2

\* where a client is kept: the server's two channel clients, the notifier's
\* Telegram and Slack clients, the shipping manager's CJ client, and the local
\* variable of the issue_invoice tool
Slots == {"naver", "coupang", "telegram", "slack", "cj", "tool"}

\* a client is created and put in the slot; close_old: the one that was there,
\* if any, is closed first
replaced(sl, close_old) ==
    [created |-> sl.created + 1,
     open |-> IF close_old /\ sl.created > 0 THEN sl.open ELSE sl.open + 1]

\* cleanup(): close() on the two channel clients and on the notifier, which
\* closes its Telegram and Slack clients
cleanup(slots) ==
    [c \in Slots |-> IF c \in {"naver", "coupang", "telegram", "slack"}
                     THEN [slots[c] EXCEPT !.open = 0] ELSE slots[c]]

\* startup: a client for every slot the settings have configured
Initialize(configured) ==
    /\ server.phase = "new"
    /\ server' = [phase |-> "running",
                  slots |-> [c \in Slots |-> IF c \in configured
                                             THEN replaced(server.slots[c], FALSE)
                                             ELSE server.slots[c]]]
    /\ UNCHANGED <<ovars, cvars, kvars, hvars, manager, outcome, tool_call,
                   completed, authenticated, time, oauth, requests, yvars>>

\* update_naver_settings, update_coupang_settings, update_telegram_settings,
\* update_cj_settings: the old client is closed and a new one takes its place
UpdateClient(c) ==
    /\ server.phase = "running"
    /\ server.slots[c].created < MaxClients
    /\ server' = [server EXCEPT !.slots[c] = replaced(@, TRUE)]
    /\ UNCHANGED <<ovars, cvars, kvars, hvars, manager, outcome, tool_call,
                   completed, authenticated, time, oauth, requests, yvars>>

\* one issue_invoice call: _get_carrier_client builds a client that the tool
\* uses and drops
ToolClient ==
    /\ server.phase = "running"
    /\ server.slots["tool"].created < MaxClients
    /\ server' = [server EXCEPT !.slots["tool"] = replaced(@, FALSE)]
    /\ UNCHANGED <<ovars, cvars, kvars, hvars, manager, outcome, tool_call,
                   completed, authenticated, time, oauth, requests, yvars>>

\* the server shuts down
Cleanup ==
    /\ server.phase = "running"
    /\ server' = [phase |-> "stopped", slots |-> cleanup(server.slots)]
    /\ UNCHANGED <<ovars, cvars, kvars, hvars, manager, outcome, tool_call,
                   completed, authenticated, time, oauth, requests, yvars>>

NextLifetime ==
    \/ \E configured \in SUBSET (Slots \ {"tool"}) : Initialize(configured)
    \/ \E c \in {"naver", "coupang", "telegram", "cj"} : UpdateClient(c)
    \/ ToolClient
    \/ Cleanup

(***************************************************************************)
(* Scheduler and the triggers of a batch run (src/src/main.py,             *)
(* src/src/api/settings.py, src/src_backup/api/orders.py)                  *)
(***************************************************************************)
MaxLogs == 2

\* values of an HH:MM setting, character by character: the defaults of
\* Settings, another time of day, a string with no colon, an hour there is not
TimeStrings ==
    {<<"1", "2", ":", "0", "0">>, <<"1", "5", ":", "3", "0">>,
     <<"0", "9", ":", "0", "5">>, <<"1", "5", "3", "0">>,
     <<"2", "5", ":", "0", "0">>}

RECURSIVE split(_, _)
\* s.split(sep)
split(s, sep) ==
    IF \A i \in 1..Len(s) : s[i] # sep THEN <<s>>
    ELSE LET k == CHOOSE i \in 1..Len(s) : s[i] = sep /\ \A j \in 1..(i - 1) : s[j] # sep
         IN <<SubSeq(s, 1, k - 1)>> \o split(SubSeq(s, k + 1, Len(s)), sep)

RECURSIVE int(_)
\* int(s) of a string of decimal digits; -1 stands for its ValueError
int(s) ==
    IF s = <<>> \/ \E i \in 1..Len(s) : \A d \in 0..9 : s[i] # Digit(d) THEN -1
    ELSE IF Len(s) = 1 THEN CHOOSE d \in 0..9 : s[1] = Digit(d)
    ELSE 10 * int(SubSeq(s, 1, Len(s) - 1)) + int(<<s[Len(s)]>>)

\* `hour, minute = s.split(":")` and CronTrigger(hour=int(hour), minute=int(minute)):
\* the unpacking, int() and the trigger's range check each raise ValueError
CronTrigger(s) ==
    LET parts == split(s, ":")
        hour == int(parts[1])
        minute == int(parts[2])
    IN IF Len(parts) # 2 THEN [ok |-> FALSE, hour |-> 0, minute |-> 0]
       ELSE IF hour \notin 0..23 \/ minute \notin 0..59
       THEN [ok |-> FALSE, hour |-> 0, minute |-> 0]
       ELSE [ok |-> TRUE, hour |-> hour, minute |-> minute]

\* a job of the scheduler: args is the batch number, 0 for a job without args
Job(id, trigger, hour, minute, args) ==
    [id |-> id, trigger |-> trigger, hour |-> hour, minute |-> minute, args |-> args]

\* scheduler.add_job(..., id=job.id) on a store that holds no job of that id,
\* or with replace_existing=True
add_job(jobs, job) == {j \in jobs : j.id # job.id} \cup {job}

\* the two add_job calls for the batch jobs, in order; the first ValueError
\* leaves the function with the jobs added so far
add_batch_jobs(jobs, first_batch, second_batch) ==
    LET first == CronTrigger(first_batch)
        second == CronTrigger(second_batch)
        one == add_job(jobs, Job("batch_1", "cron", first.hour, first.minute, 1))
        two == add_job(one, Job("batch_2", "cron", second.hour, second.minute, 2))
    IN IF ~first.ok THEN [jobs |-> jobs, raised |-> TRUE]
       ELSE IF ~second.ok THEN [jobs |-> one, raised |-> TRUE]
       ELSE [jobs |-> two, raised |-> FALSE]

\* timedelta(minutes=settings.tracking_interval_minutes), 30 by default
TrackingInterval == 30

NoScheduler ==
    [phase |-> "new", jobs |-> {}, first_batch |-> <<>>, second_batch |-> <<>>]

\* initialize(): _setup_scheduler() with the times of the settings, then
\* scheduler.start(); an exception of _setup_scheduler ends the startup
SetupScheduler(first_batch, second_batch) ==
    LET batch == add_batch_jobs({}, first_batch, second_batch)
        all == add_job(batch.jobs, Job("delivery_tracking", "interval", 0, TrackingInterval, 0))
    IN /\ scheduler.phase = "new"
       /\ scheduler' = [phase |-> IF batch.raised THEN "failed" ELSE "running",
                        jobs |-> IF batch.raised THEN batch.jobs ELSE all,
                        first_batch |-> first_batch, second_batch |-> second_batch]
       /\ UNCHANGED <<ovars, cvars, kvars, hvars, xvars, market, processing_log, shared, database>>

\* update_schedule_settings: the settings are saved, the two batch jobs are
\* removed, and the jobs for the new times are added
UpdateSchedule(first_batch, second_batch) ==
    LET removed == {j \in scheduler.jobs : j.id \notin {"batch_1", "batch_2"}}
        batch == add_batch_jobs(removed, first_batch, second_batch)
    IN /\ scheduler.phase = "running"
       /\ scheduler' = [scheduler EXCEPT !.jobs = batch.jobs,
                                         !.first_batch = first_batch,
                                         !.second_batch = second_batch]
       /\ UNCHANGED <<ovars, cvars, kvars, hvars, xvars, market, processing_log, shared, database>>

NoLog == [rows |-> <<>>, trigger |-> "none", batch_number |-> 0, answer |-> "none"]

\* _run_batch_processing(batch_number) from start to end: _save_processing_log
\* writes the row with the number it was given, unless an exception reached
\* the outer except before the row was committed
run_batch(log, trigger, batch_number, logged) ==
    [rows |-> IF logged THEN Append(log.rows, batch_number) ELSE log.rows,
     trigger |-> trigger, batch_number |-> batch_number, answer |-> "success"]

\* a cron job of the scheduler fires: _run_batch_processing(*job.args)
Fire(id) ==
    /\ scheduler.phase = "running"
    /\ Len(processing_log.rows) < MaxLogs
    /\ \E j \in scheduler.jobs, logged \in BOOLEAN :
         /\ j.id = id /\ j.trigger = "cron"
         /\ processing_log' = run_batch(processing_log, "scheduler", j.args, logged)
    /\ UNCHANGED <<ovars, cvars, kvars, hvars, xvars, market, scheduler, shared, database>>

\* POST /process-batch/{batch_number}
ProcessBatch(batch_number) ==
    /\ scheduler.phase = "running"
    /\ Len(processing_log.rows) < MaxLogs
    /\ \E logged \in BOOLEAN :
         processing_log' =
            IF batch_number \notin {1, 2}
            THEN [processing_log EXCEPT !.trigger = "http", !.batch_number = batch_number,
                                        !.answer = "rejected"]
            ELSE run_batch(processing_log, "http", batch_number, logged)
    /\ UNCHANGED <<ovars, cvars, kvars, hvars, xvars, market, scheduler, shared, database>>

\* the process_batch tool: _handle_tool passes arguments.get("batch_number", 1)
\* to _tool_process_batch, which runs the batch and answers success
ToolProcessBatch(arguments) ==
    LET batch_number == IF arguments = <<>> THEN 1 ELSE arguments[1]
    IN /\ scheduler.phase = "running"
       /\ Len(processing_log.rows) < MaxLogs
       /\ \E logged \in BOOLEAN :
            processing_log' = run_batch(processing_log, "tool", batch_number, logged)
       /\ UNCHANGED <<ovars, cvars, kvars, hvars, xvars, market, scheduler, shared, database>>

\* the batch numbers a caller may send
BatchNumbers == 0..3

NextSchedule ==
    \/ \E f \in TimeStrings, s \in TimeStrings : SetupScheduler(f, s)
    \/ \E f \in TimeStrings, s \in TimeStrings : UpdateSchedule(f, s)
    \/ \E id \in {"batch_1", "batch_2"} : Fire(id)
    \/ \E n \in BatchNumbers : ProcessBatch(n)
    \/ \E n \in BatchNumbers : ToolProcessBatch(<<n>>)
    \/ ToolProcessBatch(<<>>)

(***************************************************************************)
(* The shared channel clients under a settings update (src/src/main.py,    *)
(* src/src/api/settings.py, src/src/channels)                              *)
(***************************************************************************)
\* the operations a batch run calls on server.naver_client / coupang_client
RunOps == {"get_new_orders", "confirm_order", "register_invoice"}

\* client: the instance server.<channel>_client refers to, 0 for None;
\* closed: the instances whose close() has begun; update: where
\* update_<channel>_settings stands; call: the operation of the run in flight
\* with the instance it was called on; issued: the request sent last, with
\* whether the instance it went through was closed by then
NoShared ==
    [client |-> [c \in Channels |-> 0], closed |-> {},
     update |-> [pc |-> "idle", channel |-> "none"],
     call |-> [pc |-> "idle", channel |-> "none", instance |-> 0, op |-> "none"],
     issued |-> <<>>]

\* http_client.post / get of instance i of channel c's client
Request(sh, c, i) == <<[channel |-> c, instance |-> i, closed |-> <<c, i>> \in sh.closed]>>

\* update_naver_settings / update_coupang_settings up to its first await: with
\* a client in place, `await server.<channel>_client.close()`, whose aclose()
\* marks the client closed and suspends; with none, the new client at once
UpdateBegin(c) ==
    /\ shared.update.pc = "idle"
    /\ shared.client[c] < MaxClients
    /\ shared' = IF shared.client[c] # 0
                 THEN [shared EXCEPT !.closed = @ \cup {<<c, shared.client[c]>>},
                                     !.update = [pc |-> "closing", channel |-> c]]
                 ELSE [shared EXCEPT !.client[c] = 1,
                                     !.update = [pc |-> "authenticate", channel |-> c]]
    /\ UNCHANGED <<ovars, cvars, kvars, hvars, xvars, market, scheduler, processing_log, database>>

\* close() returns: server.<channel>_client = the new client, and
\* `await server.<channel>_client.authenticate()` begins
UpdateReplace ==
    /\ shared.update.pc = "closing"
    /\ shared' = [shared EXCEPT !.client[shared.update.channel] = @ + 1,
                                !.update.pc = "authenticate"]
    /\ UNCHANGED <<ovars, cvars, kvars, hvars, xvars, market, scheduler, processing_log, database>>

\* the handler answers
UpdateReturns ==
    /\ shared.update.pc = "authenticate"
    /\ shared' = [shared EXCEPT !.update = [pc |-> "idle", channel |-> "none"]]
    /\ UNCHANGED <<ovars, cvars, kvars, hvars, xvars, market, scheduler, processing_log, database>>

\* _collect_new_orders / _confirm_order / _register_invoice_to_channel read
\* server.<channel>_client and call the operation on it, which runs on to its
\* first request: the token request when token is false (the Naver client
\* holds no valid token), the API request otherwise
RunCall(c, op, token) ==
    /\ shared.call.pc = "idle"
    /\ shared.client[c] # 0
    /\ c = "coupang" => token
    /\ shared' = [shared EXCEPT
         !.issued = Request(shared, c, shared.client[c]),
         !.call = IF token THEN [pc |-> "returning", channel |-> c,
                                 instance |-> shared.client[c], op |-> op]
                  ELSE [pc |-> "authenticate", channel |-> c,
                        instance |-> shared.client[c], op |-> op]]
    /\ UNCHANGED <<ovars, cvars, kvars, hvars, xvars, market, scheduler, processing_log, database>>

\* the token request is answered: the operation sends its API request through
\* the http_client of the instance it runs on, or returns when no token came
RunRequest ==
    /\ shared.call.pc = "authenticate"
    /\ \E ok \in BOOLEAN :
         shared' = IF ok
                   THEN [shared EXCEPT
                           !.issued = Request(shared, shared.call.channel, shared.call.instance),
                           !.call.pc = "returning"]
                   ELSE [shared EXCEPT !.issued = <<>>, !.call = NoShared.call]
    /\ UNCHANGED <<ovars, cvars, kvars, hvars, xvars, market, scheduler, processing_log, database>>

\* the operation returns to the run
RunReturns ==
    /\ shared.call.pc = "returning"
    /\ shared' = [shared EXCEPT !.issued = <<>>, !.call = NoShared.call]
    /\ UNCHANGED <<ovars, cvars, kvars, hvars, xvars, market, scheduler, processing_log, database>>

NextShared ==
    \/ \E c \in Channels : UpdateBegin(c)
    \/ UpdateReplace
    \/ UpdateReturns
    \/ \E c \in Channels, op \in RunOps, token \in BOOLEAN : RunCall(c, op, token)
    \/ RunRequest
    \/ RunReturns

(***************************************************************************)
(* Access tokens (src/database.py)                                         *)
(***************************************************************************)
MaxTokens == 2
MaxDays == 2

\* users.id of the registered sellers
Users == {1, 2}

\* datetime.now() - datetime.utcnow() of the server's time zone, in the clock's
\* unit: the server runs on UTC, or ahead of it
UtcOffsets == {0, 1}

\* tokens: the rows of the tokens table ever inserted, index = AUTOINCREMENT
\* id, present false once deleted; clock: CURRENT_TIMESTAMP (UTC); ended:
\* the token strings for which revoke_token or delete_token returned true;
\* last: the last lookup by token and what it returned, 0 for None
NoDatabase == [tokens |-> <<>>, clock |-> 0, ended |-> {}, last |-> <<>>]

\* generate_token(): secrets.token_urlsafe(32), a string no row holds yet
generate_token(db) == Len(db.tokens) + 1

\* create_token(user_id, name, expires_days) on a server whose local time is
\* utcoffset ahead of UTC: expires_at is written from datetime.now()
create_token(db, user_id, expires_days, utcoffset) ==
    [db EXCEPT !.tokens = Append(@, [user_id |-> user_id, token |-> generate_token(db),
                                     expires_at |-> db.clock + utcoffset + expires_days,
                                     is_active |-> TRUE, present |-> TRUE]),
               !.last = <<>>]

\* validate_token with a query that leaves is_active out
validate_tokenAnyState(db, token) ==
    LET rows == {i \in 1..Len(db.tokens) :
                    /\ db.tokens[i].present /\ db.tokens[i].token = token
                    /\ db.tokens[i].expires_at > db.clock}
    IN IF rows = {} THEN 0 ELSE db.tokens[CHOOSE i \in rows : TRUE].user_id

\* validate_token(token): SELECT user_id FROM tokens WHERE token = ? AND
\* is_active = 1 AND expires_at > CURRENT_TIMESTAMP; the user_id, 0 for None
validate_token(db, token) ==
    LET rows == {i \in 1..Len(db.tokens) :
                    /\ db.tokens[i].present /\ db.tokens[i].token = token
                    /\ db.tokens[i].is_active
                    /\ db.tokens[i].expires_at > db.clock}
    IN IF rows = {} THEN 0 ELSE db.tokens[CHOOSE i \in rows : TRUE].user_id

\* get_credentials_by_token(token): the user whose user_credentials row is
\* returned, 0 for None
get_credentials_by_token(db, token) ==
    LET user_id == validate_token(db, token)
    IN IF user_id = 0 THEN 0 ELSE user_id

\* the rows `WHERE id = ? AND user_id = ?` matches
OwnRows(db, token_id, user_id) ==
    {i \in 1..Len(db.tokens) :
        i = token_id /\ db.tokens[i].present /\ db.tokens[i].user_id = user_id}

\* revoke_token(token_id, user_id): UPDATE tokens SET is_active = 0, and
\* rowcount > 0
revoke_token(db, token_id, user_id) ==
    LET rows == OwnRows(db, token_id, user_id)
    IN [db EXCEPT !.tokens = [i \in 1..Len(db.tokens) |->
                                 IF i \in rows THEN [db.tokens[i] EXCEPT !.is_active = FALSE]
                                 ELSE db.tokens[i]],
                  !.ended = @ \cup {db.tokens[i].token : i \in rows},
                  !.last = <<>>]

\* delete_token(token_id, user_id): DELETE FROM tokens, and rowcount > 0; of
\* the row only its id stays behind, which AUTOINCREMENT does not give again
delete_token(db, token_id, user_id) ==
    LET rows == OwnRows(db, token_id, user_id)
    IN [db EXCEPT !.tokens = [i \in 1..Len(db.tokens) |->
                                 IF i \in rows
                                 THEN [user_id |-> 0, token |-> 0, expires_at |-> 0,
                                       is_active |-> FALSE, present |-> FALSE]
                                 ELSE db.tokens[i]],
                  !.ended = @ \cup {db.tokens[i].token : i \in rows},
                  !.last = <<>>]

CreateToken(user_id, expires_days, utcoffset) ==
    /\ Len(database.tokens) < MaxTokens
    /\ database' = create_token(database, user_id, expires_days, utcoffset)
    /\ UNCHANGED <<ovars, cvars, kvars, hvars, xvars, market, scheduler, processing_log, shared>>

ValidateToken(token) ==
    /\ database' = [database EXCEPT !.last =
                      <<[fn |-> "validate_token", token |-> token,
                         returned |-> validate_token(database, token)]>>]
    /\ UNCHANGED <<ovars, cvars, kvars, hvars, xvars, market, scheduler, processing_log, shared>>

GetCredentialsByToken(token) ==
    /\ database' = [database EXCEPT !.last =
                      <<[fn |-> "get_credentials_by_token", token |-> token,
                         returned |-> get_credentials_by_token(database, token)]>>]
    /\ UNCHANGED <<ovars, cvars, kvars, hvars, xvars, market, scheduler, processing_log, shared>>

RevokeToken(token_id, user_id) ==
    /\ database' = revoke_token(database, token_id, user_id)
    /\ UNCHANGED <<ovars, cvars, kvars, hvars, xvars, market, scheduler, processing_log, shared>>

DeleteToken(token_id, user_id) ==
    /\ database' = delete_token(database, token_id, user_id)
    /\ UNCHANGED <<ovars, cvars, kvars, hvars, xvars, market, scheduler, processing_log, shared>>

\* a day goes by
Advance ==
    /\ database.clock < MaxDays
    /\ database' = [database EXCEPT !.clock = @ + 1, !.last = <<>>]
    /\ UNCHANGED <<ovars, cvars, kvars, hvars, xvars, market, scheduler, processing_log, shared>>

NextAccess ==
    \/ \E u \in Users, d \in 1..2, o \in UtcOffsets : CreateToken(u, d, o)
    \/ \E t \in 1..MaxTokens : ValidateToken(t)
    \/ \E t \in 1..MaxTokens : GetCredentialsByToken(t)
    \/ \E i \in 1..MaxTokens, u \in Users : RevokeToken(i, u)
    \/ \E i \in 1..MaxTokens, u \in Users : DeleteToken(i, u)
    \/ Advance

(***************************************************************************)
(* The batch_issue_invoices tool (src/tools/shipping.py)                   *)
(***************************************************************************)
\* batch_issue_invoices(orders, carrier) for MaxBatch orders: issue_invoice
\* for each in turn, where the API answers as[k] to order k's request, the
\* clock reads nows[k] and randint draws ns[k]; the results in order
batch_issue_invoices(carrier, customer_id, api_key, sender_configured, as, nows, ns) ==
    [k \in 1..MaxBatch |->
        issue_invoice(carrier, customer_id, api_key, sender_configured,
                      as[k], nows[k], ns[k]).result]

BatchIssueInvoices(carrier, customer_id, api_key, sender_configured) ==
    /\ tool_call = NoToolCall
    /\ \E as \in [1..MaxBatch -> IF sender_configured /\ api_key # "" THEN RemoteAnswers
                                 ELSE {CHOOSE x \in RemoteAnswers : x.kind = "timeout"}],
          nows \in [1..MaxBatch -> Clock],
          ns \in [1..MaxBatch -> randint(IF carrier \in CarrierType THEN carrier ELSE "cj")] :
          tool_call' = [carrier |-> carrier, customer_id |-> customer_id,
                        api_key |-> api_key, sender_configured |-> sender_configured,
                        result |-> batch_issue_invoices(carrier, customer_id, api_key,
                                                        sender_configured, as, nows, ns)]
    /\ UNCHANGED <<ovars, cvars, kvars, hvars, manager, outcome, completed, authenticated,
                   time, oauth, requests, server, yvars>>

NextBatchTool ==
    \E carrier \in CarrierType \cup {"unknown"}, customer_id \in {"", "id"},
       api_key \in {"", "live-key"}, sender_configured \in BOOLEAN :
       BatchIssueInvoices(carrier, customer_id, api_key, sender_configured)

\* nothing running: no batch run, no request, no client, no manager
NoExtras ==
    /\ manager = NoManager
    /\ outcome = Outcome("none", "None", "None", "None")
    /\ tool_call = NoToolCall
    /\ completed = FALSE
    /\ authenticated = <<>>
    /\ time = 0
    /\ oauth = [access_token |-> FALSE, token_expires_at |-> 0]
    /\ requests = <<>>
    /\ server = [phase |-> "new", slots |-> [c \in Slots |-> [created |-> 0, open |-> 0]]]
    /\ scheduler = NoScheduler
    /\ processing_log = NoLog
    /\ shared = NoShared
    /\ database = NoDatabase

InitIdle == NoRuns /\ NoRequests /\ NoCarrierClient /\ NoChannelClient /\ NoExtras

SpecManager == InitIdle /\ [][NextManager]_vars

SpecToken == InitIdle /\ [][NextToken]_vars

SpecLifetime == InitIdle /\ [][NextLifetime]_vars

SpecSchedule == InitIdle /\ [][NextSchedule]_vars

SpecShared == InitIdle /\ [][NextShared]_vars

SpecAccess == InitIdle /\ [][NextAccess]_vars

SpecBatchTool == InitIdle /\ [][NextBatchTool]_vars

SpecChannel == InitIdle /\ [][NextChannel]_vars

SpecCred == InitIdle /\ [][NextCred]_vars

SpecCarrier == InitIdle /\ [][NextCarrier]_vars

(***************************************************************************)
(* Orchestrator: actions                                                   *)
(***************************************************************************)
InitBatch ==
    /\ client \in [Channels -> BOOLEAN]
    /\ orders = <<>>
    /\ logs = <<>>
    /\ run = [t \in Tasks |-> IdleRun]
    /\ started = 0
    /\ market = remote
    /\ NoRequests
    /\ NoCarrierClient
    /\ NoChannelClient
    /\ NoExtras

\* _collect_new_orders runs on to its next await: the get_new_orders() of the
\* next channel at or after position k whose client is set, else the commit
ToChannel(r, k) ==
    LET cs == {i \in k..Len(ChannelType) : client[ChannelType[i]]}
    IN IF cs = {}
       THEN [r EXCEPT !.pc = "commit", !.fetched = <<>>]
       ELSE [r EXCEPT !.pc = "fetch", !.fetched = <<>>,
                      !.ch = CHOOSE i \in cs : \A j \in cs : i <= j]

\* next step inside the for-loop over one channel's fetched orders
NextSave(r) == IF r.fetched = <<>> THEN ToChannel(r, r.ch + 1) ELSE [r EXCEPT !.pc = "save"]

\* the pending query: select(Order).where(status.in_([NEW, CONFIRMED]))
Pending ==
    {i \in 1..Len(orders) : /\ orders[i].session = "committed"
                            /\ orders[i].status \in {"new", "confirmed"}}

\* a trigger fires: the scheduler starts a batch, an explicit call a batch or a collect
Start(t, k) ==
    /\ run[t].pc = "idle"
    /\ started < MaxRuns
    /\ t = "scheduler" <=> k = "batch"
    /\ started' = started + 1
    /\ run' = [run EXCEPT ![t] = ToChannel([IdleRun EXCEPT !.kind = k], 1)]
    /\ UNCHANGED <<client, orders, logs, cvars, kvars, hvars, xvars, yvars>>

\* _collect_new_orders: `await client.get_new_orders()` answers with the
\* marketplace's new orders, or with [] when the request failed inside the client
Fetch(t) ==
    LET r == run[t]
        c == ChannelType[r.ch]
    IN /\ r.pc = "fetch"
       /\ \E S \in {{}, market[c]} :
            run' = [run EXCEPT ![t] = NextSave([r EXCEPT !.fetched = SortedSeq(S)])]
       /\ UNCHANGED <<client, orders, logs, started, cvars, kvars, hvars, xvars, yvars>>

\* _save_order for the next fetched order: the existence query, then add and flush
SaveOrder(t) ==
    LET r == run[t]
        c == ChannelType[r.ch]
        m == Matching(t, c, Head(r.fetched))
    IN /\ r.pc = "save"
       /\ IF Cardinality(m) > 1
          THEN \* scalar_one_or_none raises MultipleResultsFound: the channel is abandoned
               /\ run' = [run EXCEPT ![t] = ToChannel(r, r.ch + 1)]
               /\ orders' = orders
          ELSE IF Cardinality(m) = 1
          THEN \* already ingested: return None
               /\ run' = [run EXCEPT ![t] = NextSave([r EXCEPT !.fetched = Tail(r.fetched),
                                                               !.skipped = r.skipped + 1])]
               /\ orders' = orders
          ELSE /\ orders' = Append(orders, NewOrder(c, Head(r.fetched), t))
               /\ run' = [run EXCEPT ![t] =
                    NextSave([r EXCEPT !.fetched = Tail(r.fetched),
                                       !.all_orders = Append(r.all_orders, Len(orders) + 1)])]
       /\ UNCHANGED <<client, logs, started, cvars, kvars, hvars, xvars, yvars>>

\* a loop that stops at the first order whose steps did not both succeed
NextOrderHalting(r) ==
    IF /\ r.idx < Len(r.all_orders)
       /\ \A i \in 1..Len(r.steps) : r.steps[i].confirm = "ok" /\ r.steps[i].register = "ok"
    THEN [r EXCEPT !.pc = "confirm", !.idx = r.idx + 1]
    ELSE [r EXCEPT !.pc = "notify"]

\* the order loop moves to the next order, or leaves the loop
NextOrder(r) ==
    IF r.idx < Len(r.all_orders)
    THEN [r EXCEPT !.pc = "confirm", !.idx = r.idx + 1]
    ELSE [r EXCEPT !.pc = "notify"]

\* _collect_new_orders: session.commit() and return all_orders (its locals end here)
CollectCommit(t) ==
    LET r == run[t]
    IN /\ r.pc = "commit"
       /\ orders' = [i \in 1..Len(orders) |->
                       IF orders[i].session = t
                       THEN [orders[i] EXCEPT !.session = "committed"]
                       ELSE orders[i]]
       /\ run' = [run EXCEPT ![t] =
            IF r.kind = "collect"
            THEN [r EXCEPT !.pc = "respond", !.skipped = 0]
            ELSE NextOrder([r EXCEPT !.results.collected = Len(r.all_orders),
                                     !.skipped = 0])]
       /\ UNCHANGED <<client, logs, started, cvars, kvars, hvars, xvars, yvars>>

\* the ShippingResponses the orchestrator obtains for an order between its
\* confirmation and its registration: lines 189-191 build the tracking number
\* in place and call neither the Shipping Manager nor a carrier client
InvoicesRequested(id) == <<>>

\* a handler that swallows the exception without telling anyone
TopLevelExceptSilent(r) == [r EXCEPT !.pc = "respond", !.failed = TRUE]

\* the outer `except Exception` of _run_batch_processing: logger.exception,
\* notifier.notify_error, and the function goes on to its last line
TopLevelExcept(r) ==
    [r EXCEPT !.pc = "respond", !.failed = TRUE, !.error_notified = TRUE]

\* _collect_new_orders when its session.commit() raises: the session's rows are
\* rolled back and the exception leaves the function, into the outer except of
\* a batch run or out of _tool_get_new_orders
CollectRaises(t) ==
    LET r == run[t]
        ended == [r EXCEPT !.skipped = 0, !.all_orders = <<>>]
    IN /\ r.pc = "commit"
       /\ orders' = [i \in 1..Len(orders) |->
                       IF orders[i].session = t
                       THEN [orders[i] EXCEPT !.session = "rolledback"]
                       ELSE orders[i]]
       /\ run' = [run EXCEPT ![t] =
            IF r.kind = "batch" THEN TopLevelExcept(ended)
            ELSE [ended EXCEPT !.pc = "respond", !.failed = TRUE]]
       /\ UNCHANGED <<client, logs, started, cvars, kvars, hvars, xvars, yvars>>

\* one per-order record of what the steps of the order answered
StepEntry(id, c, g) ==
    [id |-> id, confirm |-> c, register |-> g, invoice |-> InvoicesRequested(id)]

\* a confirmation that forgets its timestamp
ConfirmedRowNoStamp(o) == [o EXCEPT !.status = "confirmed"]

\* _confirm_order lines 304-305: what a successful confirmation writes on the row
ConfirmedRow(o) == [o EXCEPT !.status = "confirmed", !.confirmed_at = TRUE]

\* a registration that writes the wrong status member
ShippedRowReset(o, tn) ==
    [o EXCEPT !.status = "new", !.tracking_number = tn, !.shipped_at = TRUE]

\* _register_invoice_to_channel lines 321-323: what a successful registration writes
ShippedRow(o, tn) ==
    [o EXCEPT !.status = "shipped", !.tracking_number = tn, !.shipped_at = TRUE]

\* a write that stays even though its commit failed
PersistUncommitted(id, row, committed) == [orders EXCEPT ![id] = row]

\* session.commit() of one changed row: the table afterwards
Persist(id, row, committed) ==
    IF committed THEN [orders EXCEPT ![id] = row] ELSE orders

\* a handler that counts the failed order and the exception as two errors
AfterOrderErrorTwice(r) == NextOrder([r EXCEPT !.results.errors = r.results.errors + 2])

\* `except Exception` of the per-order try: count the error, go on with the loop
AfterOrderError(r) == NextOrder([r EXCEPT !.results.errors = r.results.errors + 1])

\* a loop that confirms the next order before it has registered this one
AfterConfirmDeferred(r, id) ==
    NextOrder([r EXCEPT !.results.confirmed = r.results.confirmed + 1,
                        !.steps = Append(r.steps, StepEntry(id, "ok", "none"))])

\* `if confirmed:` of the loop body: count it and go on, in the same iteration,
\* to the invoice and the registration of this order
AfterConfirm(r, id) ==
    [r EXCEPT !.pc = "register",
              !.results.confirmed = r.results.confirmed + 1,
              !.steps = Append(r.steps, StepEntry(id, "ok", "none"))]

\* _confirm_order inside the per-order try of _run_batch_processing
ConfirmOrder(t) ==
    LET r == run[t]
        id == r.all_orders[r.idx]
        o == orders[id]
    IN /\ r.pc = "confirm"
       /\ \E success \in BOOLEAN, committed \in BOOLEAN :
            /\ ~client[o.channel] => ~success
            /\ ~success => committed
            /\ IF success
               THEN /\ orders' = Persist(id, ConfirmedRow(o), committed)
                    /\ run' = [run EXCEPT ![t] =
                         IF committed
                         THEN AfterConfirm(r, id)
                         ELSE AfterOrderError(
                                [r EXCEPT !.steps = Append(r.steps, StepEntry(id, "raise", "none"))])]
               ELSE /\ orders' = orders
                    /\ run' = [run EXCEPT ![t] =
                         NextOrder([r EXCEPT !.steps = Append(r.steps, StepEntry(id, "false", "none"))])]
       /\ UNCHANGED <<client, logs, started, cvars, kvars, hvars, xvars, yvars>>

\* the dummy invoice and _register_invoice_to_channel inside the per-order try
RegisterInvoice(t) ==
    LET r == run[t]
        id == r.all_orders[r.idx]
        o == orders[id]
        n == Len(r.steps)
    IN /\ r.pc = "register"
       /\ \E success \in BOOLEAN, committed \in BOOLEAN :
            LET tracking_number == DummyTracking(id)
            IN /\ ~client[o.channel] => ~success
               /\ ~success => committed
               /\ IF success
                  THEN /\ orders' = Persist(id, ShippedRow(o, tracking_number), committed)
                       /\ run' = [run EXCEPT ![t] =
                            IF committed
                            THEN NextOrder([r EXCEPT !.results.printed = r.results.printed + 1,
                                                     !.steps[n].register = "ok"])
                            ELSE AfterOrderError([r EXCEPT !.steps[n].register = "raise"])]
                  ELSE /\ orders' = orders
                       /\ run' = [run EXCEPT ![t] =
                            NextOrder([r EXCEPT !.steps[n].register = "false"])]
       /\ UNCHANGED <<client, logs, started, cvars, kvars, hvars, xvars, yvars>>

\* a notification manager that raises when no notifier delivered the message
AfterNotifyRaising(r, sent) ==
    IF sent THEN [r EXCEPT !.pc = "log", !.summary = "sent"]
    ELSE TopLevelExcept([r EXCEPT !.summary = "failed"])

\* notify_batch_complete returns: _send_all collects the NotificationResults of
\* the notifiers, which catch their own exceptions, and raises nothing
AfterNotify(r, sent) ==
    [r EXCEPT !.pc = "log", !.summary = IF sent THEN "sent" ELSE "failed"]

\* notifier.notify_batch_complete, the summary is delivered
Notify(t) ==
    /\ run[t].pc = "notify"
    /\ run' = [run EXCEPT ![t] = AfterNotify(run[t], TRUE)]
    /\ UNCHANGED <<client, orders, logs, started, cvars, kvars, hvars, xvars, yvars>>

\* notifier.notify_batch_complete when every configured notifier fails to
\* deliver (the request raises or is answered with a status other than 200)
NotifyFails(t) ==
    /\ run[t].pc = "notify"
    /\ run' = [run EXCEPT ![t] = AfterNotify(run[t], FALSE)]
    /\ UNCHANGED <<client, orders, logs, started, cvars, kvars, hvars, xvars, yvars>>

\* _save_processing_log, and the outer except when its commit fails
SaveProcessingLog(t) ==
    /\ run[t].pc = "log"
    /\ \E committed \in BOOLEAN :
         IF committed
         THEN /\ logs' = Append(logs, run[t].results)
              /\ run' = [run EXCEPT ![t].pc = "respond", ![t].logged = TRUE]
         ELSE /\ logs' = logs
              /\ run' = [run EXCEPT ![t] = TopLevelExcept(run[t])]
    /\ UNCHANGED <<client, orders, started, cvars, kvars, hvars, xvars, yvars>>

\* the run returns to its trigger: _tool_get_new_orders / _tool_process_batch answer
Respond(t) ==
    /\ run[t].pc = "respond"
    /\ run' = [run EXCEPT ![t] = IdleRun]
    /\ UNCHANGED <<client, orders, logs, started, cvars, kvars, hvars, xvars, yvars>>

\* update_naver_settings / update_coupang_settings: the client is replaced
UpdateSettings(c) ==
    /\ ~client[c]
    /\ client' = [client EXCEPT ![c] = TRUE]
    /\ UNCHANGED <<orders, logs, run, started, cvars, kvars, hvars, xvars, yvars>>

NextBatch ==
    \/ \E t \in Tasks, k \in {"batch", "collect"} : Start(t, k)
    \/ \E t \in Tasks : Fetch(t)
    \/ \E t \in Tasks : SaveOrder(t)
    \/ \E t \in Tasks : CollectCommit(t)
    \/ \E t \in Tasks : ConfirmOrder(t)
    \/ \E t \in Tasks : RegisterInvoice(t)
    \/ \E t \in Tasks : Notify(t)
    \/ \E t \in Tasks : SaveProcessingLog(t)
    \/ \E t \in Tasks : Respond(t)
    \/ \E c \in Channels : UpdateSettings(c)

Spec == InitBatch /\ [][NextBatch]_vars

\* the scheduler's batch runs alone, with the failures of the database and of
\* the notifiers that NextBatch leaves out
Scheduled == {"scheduler"}

NextFaults ==
    \/ \E t \in Scheduled : Start(t, "batch")
    \/ \E t \in Scheduled : Fetch(t)
    \/ \E t \in Scheduled : SaveOrder(t)
    \/ \E t \in Scheduled : CollectCommit(t)
    \/ \E t \in Scheduled : CollectRaises(t)
    \/ \E t \in Scheduled : ConfirmOrder(t)
    \/ \E t \in Scheduled : RegisterInvoice(t)
    \/ \E t \in Scheduled : Notify(t)
    \/ \E t \in Scheduled : NotifyFails(t)
    \/ \E t \in Scheduled : SaveProcessingLog(t)
    \/ \E t \in Scheduled : Respond(t)
    \/ \E c \in Channels : UpdateSettings(c)

SpecFaults == InitBatch /\ [][NextFaults]_vars

\* _tool_process_batch / process_batch: an explicit call starts a batch run of
\* its own, whether or not a run of the scheduler is under way
StartProcessBatch ==
    /\ run["ondemand"].pc = "idle"
    /\ started < MaxRuns
    /\ started' = started + 1
    /\ run' = [run EXCEPT !["ondemand"] = ToChannel([IdleRun EXCEPT !.kind = "batch"], 1)]
    /\ UNCHANGED <<client, orders, logs, cvars, kvars, hvars, xvars, yvars>>

\* the runs of every trigger side by side: the scheduler's batches, explicit
\* batches and explicit collects
NextOverlap ==
    \/ \E t \in Tasks, k \in {"batch", "collect"} : Start(t, k)
    \/ StartProcessBatch
    \/ \E t \in Tasks : Fetch(t)
    \/ \E t \in Tasks : SaveOrder(t)
    \/ \E t \in Tasks : CollectCommit(t)
    \/ \E t \in Tasks : ConfirmOrder(t)
    \/ \E t \in Tasks : RegisterInvoice(t)
    \/ \E t \in Tasks : Notify(t)
    \/ \E t \in Tasks : SaveProcessingLog(t)
    \/ \E t \in Tasks : Respond(t)
    \/ \E c \in Channels : UpdateSettings(c)

SpecOverlap == InitBatch /\ [][NextOverlap]_vars

\* the end-to-end scenario: the Naver channel alone is configured and holds
\* all the new orders there are, the database is empty
InitScenario ==
    /\ client = [c \in Channels |-> c = "naver"]
    /\ orders = <<>>
    /\ logs = <<>>
    /\ run = [t \in Tasks |-> IdleRun]
    /\ started = 0
    /\ market = [c \in Channels |-> IF c = "naver" THEN 1..MaxOrders ELSE {}]
    /\ NoRequests
    /\ NoCarrierClient
    /\ NoChannelClient
    /\ NoExtras

SpecScenario == InitScenario /\ [][NextFaults]_vars

(***************************************************************************)
(* Orchestrator: properties                                                *)
(***************************************************************************)
Committed(c, coid) ==
    {i \in 1..Len(orders) : /\ orders[i].session = "committed"
                            /\ orders[i].channel = c
                            /\ orders[i].channel_order_id = coid}

BatchOver(t) == run[t].kind = "batch" /\ run[t].pc \in {"notify", "log", "respond"}

StepFailed(e) == e.confirm \in {"false", "raise"} \/ e.register \in {"false", "raise"}

\* C2: when a collection meets a fetched order that an earlier collection has
\* already ingested (a committed row with the same channel and channel order
\* id), the step creates no row, adds nothing to the run's ingested orders and
\* counts no error.
C2_IdempotentCollection ==
    [][\A t \in Tasks :
          (/\ run[t].pc = "save"
           /\ Committed(ChannelType[run[t].ch], Head(run[t].fetched)) # {}
           /\ run'[t] # run[t])
          => /\ orders' = orders
             /\ run'[t].all_orders = run[t].all_orders
             /\ run'[t].results = run[t].results]_vars

\* a later collect that met ingested orders only, and ingested nothing
C2_Witness ==
    \E t \in Tasks :
        /\ run[t].kind = "collect" /\ run[t].pc = "commit"
        /\ run[t].skipped = MaxOrders /\ run[t].all_orders = <<>>
        /\ Len(orders) = MaxOrders

\* C3: no two persisted Order rows share the same (channel, channel_order_id).
C3_UniqueChannelOrderId ==
    \A i, j \in 1..Len(orders) :
        (/\ i # j
         /\ orders[i].session = "committed" /\ orders[j].session = "committed"
         /\ orders[i].channel = orders[j].channel)
        => orders[i].channel_order_id # orders[j].channel_order_id

\* C4: when the order loop of a batch run is over, every order of the run has
\* been taken through its steps, whatever happened to the others, and each
\* order whose own steps succeeded is shipped.
C4_FailureIsolation ==
    \A t \in Tasks :
        BatchOver(t) =>
            /\ Len(run[t].steps) = Len(run[t].all_orders)
            /\ \A i \in 1..Len(run[t].steps) :
                 /\ run[t].steps[i].id = run[t].all_orders[i]
                 /\ (run[t].steps[i].confirm = "ok" /\ run[t].steps[i].register = "ok")
                      => orders[run[t].steps[i].id].status = "shipped"

\* the first order's confirmation failed, the second order is shipped
C4_Witness ==
    \E t \in Tasks :
        /\ BatchOver(t) /\ Len(run[t].steps) = 2
        /\ run[t].steps[1].confirm \in {"false", "raise"}
        /\ run[t].steps[2].register = "ok"
        /\ orders[run[t].steps[2].id].status = "shipped"

\* C5: after the order loop, the run's errors count equals the number of
\* orders that failed at a step, whether the step answered failure or raised.
C5_ErrorsCountFailedOrders ==
    \A t \in Tasks :
        BatchOver(t) =>
            run[t].results.errors =
                Cardinality({i \in 1..Len(run[t].steps) : StepFailed(run[t].steps[i])})

\* C6: an order whose confirmation failed in a run is still new and was not
\* taken to registration; an order whose registration failed is still
\* confirmed; no order is taken through the steps twice in one run.
C6_FailedStepLeavesStatus ==
    \A t \in Tasks : \A i \in 1..Len(run[t].steps) :
        LET e == run[t].steps[i]
        IN /\ e.confirm \in {"false", "raise"}
                => orders[e.id].status = "new" /\ e.register = "none"
           /\ e.register \in {"false", "raise"} => orders[e.id].status = "confirmed"
           /\ \A j \in 1..Len(run[t].steps) : j # i => run[t].steps[j].id # e.id

\* one order failed at confirmation and another at registration, loop over
C6_Witness ==
    \E t \in Tasks :
        /\ BatchOver(t)
        /\ \E i \in 1..Len(run[t].steps) : run[t].steps[i].confirm = "raise"
        /\ \E i \in 1..Len(run[t].steps) :
             /\ run[t].steps[i].register \in {"false", "raise"}
             /\ orders[run[t].steps[i].id].status = "confirmed"

\* C7: every step keeps every Order row, with its identity, and moves its
\* status forward along OrderStatus or not at all.
C7_StatusMonotone ==
    [][/\ Len(orders') >= Len(orders)
       /\ \A i \in 1..Len(orders) :
            /\ orders'[i].channel = orders[i].channel
            /\ orders'[i].channel_order_id = orders[i].channel_order_id
            /\ Rank(orders'[i].status) >= Rank(orders[i].status)]_vars

\* every order has moved new -> confirmed -> shipped while settings changed
C7_Witness ==
    /\ Len(orders) = MaxOrders
    /\ \A i \in 1..Len(orders) : orders[i].status = "shipped"
    /\ started = MaxRuns

C1_TenantIsolation ==
    \A r \in Requests :
        /\ (req[r].pc \in {"endpoint", "await"} /\ req[r].path = "/mcp")
              => get_credentials(r, "ep") =
                    [set |-> TRUE, value |-> extract_credentials_auto(req[r].headers)]
        /\ req[r].pc = "await"
              => req[r].call.key =
                    IF req[r].call.kind = "carrier"
                    THEN req[r].headers["x-cj-api-key"]
                    ELSE req[r].headers["x-naver-client-id"]

\* tenants A and B both have a call in flight, A's batch past its first order
C1_Witness ==
    \E r1, r2 \in Requests :
        /\ req[r1].pc = "await" /\ req[r2].pc = "await"
        /\ req[r1].headers = TenantHeaders("A") /\ req[r2].headers = TenantHeaders("B")
        /\ req[r1].tool = "batch_issue_invoices" /\ req[r1].left < MaxBatch
        /\ req[r1].call.key = Secrets["A"].cj
        /\ req[r2].call.kind = "marketplace"

(***************************************************************************)
(* Carrier clients: properties                                             *)
(***************************************************************************)
IsDigits(s) == \A i \in 1..Len(s) : \E d \in 0..9 : s[i] = Digit(d)

\* C9: every ShippingResponse a carrier client returns has success true
\* exactly when its tracking number is non-empty and its error empty, and
\* success false exactly when its error is non-empty.
C9_ResponseWellFormed ==
    \A i \in 1..Len(response) :
        /\ response[i].success <=>
              (response[i].tracking_number # <<>> /\ response[i].error = "")
        /\ ~response[i].success <=> response[i].error # ""

\* C10: a client of any class constructed with an empty API key answers
\* request_invoice with success and a tracking number made of the carrier's
\* prefix, 14 digits of timestamp and 3 or 4 digits of suffix.
C10_EmptyKeySimulates ==
    \A i \in 1..Len(response) :
        carrier_client.api_key = ""
           => LET p == Prefix(carrier_client.carrier)
                  t == response[i].tracking_number
              IN /\ response[i].success
                 /\ Len(t) - Len(p) \in {17, 18}
                 /\ SubSeq(t, 1, Len(p)) = p
                 /\ IsDigits(SubSeq(t, Len(p) + 1, Len(t)))

\* C11: whenever a live request_invoice call of any class meets a refused
\* connection, a timeout or a non-success HTTP status, the call returns success
\* with a simulated tracking number (the carrier's prefix, the timestamp, the
\* random suffix).
C11_LiveFailureFallsBack ==
    \A i \in 1..Len(response), j \in 1..Len(answer) :
        (answer[j].kind \in {"connect_error", "timeout"}
            \/ (answer[j].kind = "http" /\ answer[j].status \notin {200, 201}))
           => /\ response[i].success
              /\ \E now \in Clock, n \in randint(carrier_client.carrier) :
                    response[i] = TestInvoice(carrier_client.carrier, now, n)

\* C12: when the order loop of a batch run is over, every pending order
\* (committed, status new or confirmed) has been taken through the run's steps,
\* also one the run did not ingest itself. Under the scheduler's runs alone the
\* pending orders a run did not ingest are those earlier runs ingested and left
\* behind, pending since before the run started.
C12_BatchCoversPending ==
    \A t \in Scheduled :
        (BatchOver(t) /\ ~run[t].failed) =>
            \A i \in Pending :
                \E j \in 1..Len(run[t].steps) : run[t].steps[j].id = i

\* C13: an order already shipped is not taken up again: a collection step that
\* meets a fetched order with a committed shipped row creates no row and adds
\* nothing to the orders the run will process, and no confirm or register step
\* of any run acts on a row whose status is shipped.
C13_ShippedNotReprocessed ==
    [][\A t \in Tasks :
          /\ (/\ run[t].pc = "save"
              /\ \E i \in Committed(ChannelType[run[t].ch], Head(run[t].fetched)) :
                    orders[i].status = "shipped"
              /\ run'[t] # run[t])
             => /\ orders' = orders
                /\ run'[t].all_orders = run[t].all_orders
          /\ (run[t].pc \in {"confirm", "register"} /\ run'[t] # run[t])
             => orders[run[t].all_orders[run[t].idx]].status # "shipped"]_vars

\* a later batch run that met only orders already shipped and left its order
\* loop without a step
C13_Witness ==
    \E t \in Tasks :
        /\ run[t].kind = "batch" /\ BatchOver(t)
        /\ run[t].all_orders = <<>> /\ run[t].steps = <<>>
        /\ Len(orders) = MaxOrders
        /\ \A i \in 1..Len(orders) :
              orders[i].status = "shipped" /\ orders[i].session = "committed"

\* C14: for every order of a batch run whose confirmation succeeded and whose
\* steps are over, the run obtained one ShippingResponse for it, and when the
\* registration succeeded the tracking number stored on the order is the one
\* of that response.
C14_TrackingFromShippingResponse ==
    \A t \in Tasks : \A i \in 1..Len(run[t].steps) :
        LET e == run[t].steps[i]
        IN (e.confirm = "ok" /\ e.register # "none")
              => /\ Len(e.invoice) = 1
                 /\ e.register = "ok"
                       => orders[e.id].tracking_number = e.invoice[1].tracking_number

\* C15: every batch run appends exactly one ProcessingLog row as it ends, the
\* row holds the run's collected / confirmed / printed / error counts, and no
\* step modifies or deletes a row already in the log.
C15_OneLogRowPerRun ==
    [][\A t \in Tasks :
          /\ (/\ run[t].kind = "batch"
              /\ run[t].pc # "respond" /\ run'[t].pc = "respond")
             => logs' = Append(logs, run'[t].results)
          /\ Len(logs') >= Len(logs)
          /\ SubSeq(logs', 1, Len(logs)) = logs]_vars

\* C16: within a run the ProcessingLog row is persisted before the summary
\* notification is emitted: a run that has emitted its summary has logged.
C16_LogBeforeNotify ==
    \A t \in Tasks : run[t].summary # "none" => run[t].logged

\* C17: a summary notification that fails does not fail the batch: the step
\* leaves the run on its way to the log with its counts, without a run-level
\* error and with every order row as it was, and the log step that follows
\* persists those counts when its commit succeeds.
C17_NotificationFailureHarmless ==
    [][\A t \in Tasks :
          /\ (run[t].pc = "notify" /\ run'[t].summary = "failed")
             => /\ run'[t].pc = "log"
                /\ ~run'[t].failed /\ ~run'[t].error_notified
                /\ run'[t].results = run[t].results
                /\ orders' = orders
          /\ (run[t].pc = "log" /\ run[t].summary = "failed" /\ run'[t].logged)
             => /\ logs' = Append(logs, run[t].results)
                /\ ~run'[t].failed
                /\ orders' = orders]_vars

\* a run whose summary was not delivered, with a shipped order and its log row
C17_Witness ==
    \E t \in Tasks :
        /\ run[t].pc = "respond" /\ run[t].summary = "failed"
        /\ run[t].logged /\ ~run[t].failed
        /\ logs # <<>> /\ logs[Len(logs)] = run[t].results
        /\ \E i \in 1..Len(run[t].steps) :
              /\ run[t].steps[i].register = "ok"
              /\ orders[run[t].steps[i].id].status = "shipped"

\* C18: when an exception reaches the top of a batch run (from the collection
\* or from the log's commit), the step emits an error notification, the run
\* goes on to return to its trigger, and every committed order row is as it was.
C18_TopLevelCatch ==
    [][\A t \in Tasks :
          (run[t].kind = "batch" /\ ~run[t].failed /\ run'[t].failed)
             => /\ run'[t].error_notified
                /\ run'[t].pc = "respond"
                /\ Len(orders') = Len(orders)
                /\ \A i \in 1..Len(orders) :
                      orders[i].session = "committed" => orders'[i] = orders[i]]_vars

\* a run whose log commit failed after it had shipped an order
C18_Witness ==
    \E t \in Tasks :
        /\ run[t].pc = "respond" /\ run[t].failed /\ run[t].error_notified
        /\ \E i \in 1..Len(run[t].steps) :
              /\ run[t].steps[i].register = "ok"
              /\ orders[run[t].steps[i].id].status = "shipped"
              /\ orders[run[t].steps[i].id].session = "committed"

\* a step record whose order is through: its confirmation failed, or its
\* registration has answered
StepOver(e) == e.confirm # "ok" \/ e.register # "none"

\* C19: within a batch run the orders are processed one after another: when
\* the confirm step of an order is about to begin, the steps of all orders
\* before it are over, and the only order ever in the middle of its steps is
\* the current one, waiting for its registration.
C19_OneOrderAtATime ==
    \A t \in Tasks :
        run[t].kind = "batch" =>
            /\ run[t].pc = "confirm" => Len(run[t].steps) = run[t].idx - 1
            /\ \A i \in 1..Len(run[t].steps) :
                  /\ run[t].steps[i].id = run[t].all_orders[i]
                  /\ ~StepOver(run[t].steps[i])
                        => /\ run[t].pc = "register"
                           /\ i = run[t].idx /\ i = Len(run[t].steps)

\* the confirm step of a run's second order about to begin, after the first
\* order was confirmed and its registration answered
C19_Witness ==
    \E t \in Tasks :
        /\ run[t].kind = "batch" /\ run[t].pc = "confirm" /\ run[t].idx = 2
        /\ Len(run[t].steps) = 1
        /\ run[t].steps[1].confirm = "ok" /\ run[t].steps[1].register # "none"

\* C20: whenever an operation of a marketplace client met a network error, a
\* timeout or a non-2xx status on one of its requests, nothing was raised to
\* the caller and the operation returned its empty value: [] from the list
\* operations, None from get_order_detail, False from the others.
C20_ChannelFailureContained ==
    \A i \in 1..Len(call_result) :
        (\E j \in 1..Len(call_result[i].seen) : Failing(call_result[i].seen[j]))
           => /\ ~call_result[i].raised
              /\ call_result[i].returned = EmptyValue(call_result[i].op)

(***************************************************************************)
(* Shipping manager: properties                                            *)
(***************************************************************************)
\* C21: in every manager state, get_carrier(None) returns the same client as
\* get_carrier(the tenant's default code): the settings' default for a manager
\* of the settings, the credential bag's default for the manager the factory
\* has built from the bag.
C21_NoneResolvesToTenantDefault ==
    /\ manager.built = "settings"
          => get_carrier(manager, "None")
                = get_carrier(manager, default_carrier(manager))
    /\ outcome.op = "create_shipping_manager_from_credentials"
          => get_carrier(manager, "None")
                = get_carrier(manager, outcome.credentials.default_carrier)

C23_UnconfiguredCarrierRefused ==
    (/\ tool_call.carrier \in CarrierType
     /\ tool_call.customer_id = ""
     /\ tool_call.api_key = "")
       => /\ ~tool_call.result[1].success
          /\ tool_call.result[1].tracking_number = <<>>

\* C24: after construction and after every reload_settings(s), the registered
\* clients are exactly those of the carriers for which the current settings
\* hold both customer id and api key.
C24_RegisteredMatchesSettings ==
    outcome.op \in {"__init__", "reload_settings"}
       => \A c \in Managed :
             get_available_carriers(manager)[c] <=> carrier_configured(manager.settings, c)

\* C25: the configured flag that get_available_carriers reports for a carrier
\* is the same before and after every manager call other than reload_settings
\* and set_carrier: get_carrier, request_invoice, request_invoice_for_order,
\* get_label, request_pickup, cancel_invoice and close.
C25_ConfiguredFlagFrame ==
    [][(/\ manager.built # "none"
        /\ outcome'.op \in RoutedOps \cup {"get_carrier", "close"})
          => get_available_carriers(manager') = get_available_carriers(manager)]_vars

\* C26: the manager the factory builds from one tenant's credential bag has
\* registered exactly the carriers the bag has configured, each with a client
\* made from the bag, and its sender info is the tenant's or none: no client
\* and no sender info of the process-wide settings is reachable through it.
C26_FactoryIsTenantScoped ==
    outcome.op = "create_shipping_manager_from_credentials"
       => /\ \A c \in Managed :
               manager.carriers[c] = IF credentials_configured(outcome.credentials, c)
                                     THEN "credentials" ELSE "None"
          /\ manager.sender_info # "settings"

C28_SimulatedAuthenticates ==
    (authenticated # <<>> /\ carrier_client.test_mode) => authenticated[1]

C30_ClientsClosed ==
    \A c \in Slots :
        /\ c # "tool" => server.slots[c].open <= 1
        /\ server.phase = "stopped" => server.slots[c].open = 0

(***************************************************************************)
(* Triggers and scheduler: properties                                      *)
(***************************************************************************)
\* C31: every ProcessingLog row has batch number 1 or 2, whichever trigger
\* started the run, and a run requested with any other batch number is
\* rejected and writes no row.
C31_BatchNumberOneOrTwo ==
    /\ \A i \in 1..Len(processing_log.rows) : processing_log.rows[i] \in {1, 2}
    /\ (processing_log.trigger # "none" /\ processing_log.batch_number \notin {1, 2})
          => processing_log.answer = "rejected"

\* C39: once the server is initialized, and after any sequence of schedule
\* updates, the scheduler holds exactly one job each with id batch_1, batch_2
\* and delivery_tracking, and the two batch jobs fire at the first and second
\* batch times configured last, with batch numbers 1 and 2.
C39_SchedulerHoldsThreeJobs ==
    scheduler.phase = "running" =>
        /\ \A id \in {"batch_1", "batch_2", "delivery_tracking"} :
              Cardinality({j \in scheduler.jobs : j.id = id}) = 1
        /\ \A j \in scheduler.jobs :
              /\ j.id = "batch_1"
                    => /\ j.args = 1
                       /\ j.hour = CronTrigger(scheduler.first_batch).hour
                       /\ j.minute = CronTrigger(scheduler.first_batch).minute
              /\ j.id = "batch_2"
                    => /\ j.args = 2
                       /\ j.hour = CronTrigger(scheduler.second_batch).hour
                       /\ j.minute = CronTrigger(scheduler.second_batch).minute

(***************************************************************************)
(* Orchestrator: the end-to-end scenario                                   *)
(***************************************************************************)
\* the marketplace accepted every call of the run and every commit succeeded
AllAccepted(r) ==
    /\ ~r.failed
    /\ Len(r.all_orders) = MaxOrders
    /\ Len(r.steps) = MaxOrders
    /\ \A i \in 1..Len(r.steps) : r.steps[i].confirm = "ok" /\ r.steps[i].register = "ok"

C33_ConfirmedAndRegisteredOnce ==
    \A i, j \in 1..Len(orders) :
        (/\ i # j
         /\ orders[i].channel = orders[j].channel
         /\ orders[i].channel_order_id = orders[j].channel_order_id)
           => /\ ~(orders[i].confirmed_at /\ orders[j].confirmed_at)
              /\ ~(orders[i].tracking_number # <<>> /\ orders[j].tracking_number # <<>>)

(***************************************************************************)
(* Shared channel clients: properties                                      *)
(***************************************************************************)
\* C34: no marketplace request is ever sent through a channel client that has
\* already been closed, for any interleaving of a settings update, which
\* closes and replaces the shared client, with a run's call in flight.
C34_NoCallThroughClosedClient ==
    \A i \in 1..Len(shared.issued) : ~shared.issued[i].closed

(***************************************************************************)
(* Orchestrator: the counts of a run                                       *)
(***************************************************************************)
\* C35: at every point of a run and at its end, printed <= confirmed <=
\* collected and errors <= collected, where collected, once the collection is
\* over, is the number of orders the run puts through per-order processing.
C35_CountsOrdered ==
    \A t \in Tasks :
        LET r == run[t].results
        IN /\ r.printed <= r.confirmed
           /\ r.confirmed <= r.collected
           /\ r.errors <= r.collected
           /\ r.collected \in {0, Len(run[t].all_orders)}
           /\ BatchOver(t) /\ ~run[t].failed => r.collected = Len(run[t].all_orders)

\* C35 witness: a run is over with two orders collected, both confirmed, one
\* printed and one error
C35_Witness ==
    \E t \in Tasks :
        /\ BatchOver(t)
        /\ run[t].results = [collected |-> 2, confirmed |-> 2, printed |-> 1, errors |-> 1]

\* C36: a connectivity failure affects only the request_invoice call on which
\* it occurs: a client that sends its requests to the carrier's API before a
\* request_invoice call still sends them there after it, whatever the API
\* answered, so that later calls on the same client reach the live API again
C36_FailureAffectsOneCall ==
    [][response' # <<>> => IsLive(carrier_client') = IsLive(carrier_client)]_vars

\* C37: the tracking numbers that one batch_issue_invoices call issues to
\* different orders are pairwise distinct, the numbers the client makes up
\* itself (not taken from an answer of the carrier's API) included, also when
\* they are made up within the same second
C37_TrackingNumbersDistinct ==
    LET res == tool_call.result
        FromApi == {a.tracking : a \in RemoteAnswers}
    IN \A i, j \in 1..Len(res) :
          /\ i # j
          /\ res[i].success
          /\ res[j].success
          /\ res[i].tracking_number \notin FromApi
          /\ res[j].tracking_number \notin FromApi
          => res[i].tracking_number # res[j].tracking_number

\* C38: a token resolves only while it is active and unexpired: whenever
\* validate_token or get_credentials_by_token returns a user for a token, no
\* revoke_token or delete_token has ever succeeded for that token, and the
\* table holds a row of that token and user that is active and whose
\* expires_at lies after the current time
C38_EndedTokenNeverResolves ==
    \A k \in 1..Len(database.last) :
        LET l == database.last[k]
        IN l.returned # 0 =>
              /\ l.token \notin database.ended
              /\ \E i \in 1..Len(database.tokens) :
                    /\ database.tokens[i].present
                    /\ database.tokens[i].token = l.token
                    /\ database.tokens[i].user_id = l.returned
                    /\ database.tokens[i].is_active
                    /\ database.tokens[i].expires_at > database.clock

\* C38 witness: credentials are asked for by a token that was revoked, whose
\* row is still in the table and not yet expired, after a later create_token,
\* and nothing is returned
C38_Witness ==
    \E k \in 1..Len(database.last), i \in 1..Len(database.tokens) :
        /\ database.last[k].fn = "get_credentials_by_token"
        /\ database.last[k].token \in database.ended
        /\ database.last[k].returned = 0
        /\ database.tokens[i].token = database.last[k].token
        /\ database.tokens[i].present
        /\ ~database.tokens[i].is_active
        /\ database.tokens[i].expires_at > database.clock
        /\ i < Len(database.tokens)

====
